---- MODULE Spec2Model ----
(***************************************************************************)
(* Model of the voice session (nova_sonic_style_generator.py, driven by    *)
(* nova_sonic_component.py) and of the personalized-video job tracker      *)
(* (true_image_to_video_generator.py, true_image_video_component.py).      *)
(*                                                                         *)
(* A coroutine is a sequence of steps; one step is the code from one       *)
(* resumption to the next await, including the hand-over of the awaited    *)
(* send to the stream.  Callers are the flows that may call into the same  *)
(* NovaSonicStyleGenerator object.                                         *)
(***************************************************************************)
EXTENDS Integers, Sequences, FiniteSets, TLC

\* ---------------------------------------------------------------- bounds
MaxStarts == 2
MaxCalls == 4
MaxDeliver == 2

\* the flows that call into one generator object; Spec runs the calls of the
\* main flow one after another, against the receive task and the transport
Callers == {"c1", "c2"}
MainFlow == {"c1"}

\* ------------------------------------------------------- voice: constants
voice_options == {"Joanna", "Matthew", "Amy", "Brian"}
default_voice == "Joanna"
\* voice_id arguments tried: None, a member of voice_options, an unknown name
VoiceInputs == {"None", "Matthew", "Robot"}

\* output events: the two queued kinds, one of the kinds that are only logged,
\* and a payload json.loads rejects
EventKinds == {"textOutput", "audioOutput", "contentStart", "malformed"}

NoItem == [type |-> "none", content |-> <<"none", 0>>, sid |-> 0]

VARIABLES
    NOVA_SONIC_AVAILABLE, \* module flag set by the import
    credentials,          \* AWS_ACCESS_KEY_ID / AWS_SECRET_ACCESS_KEY in the environment
    loop_mode,            \* "persistent": one event loop runs all calls (asyncio.run);
                          \* "per_call": each call runs in its own loop.run_until_complete
    client,               \* self.client is set
    stream,               \* self.stream: 0 is None, else the id of a duplex stream
    is_active,            \* self.is_active
    audio_started,        \* hasattr(self, '_audio_started')
    response_queue,       \* self.response_queue
    audio_queue,          \* self.audio_queue
    streams,              \* the duplex streams the client has been asked for
    tasks,                \* the _process_responses tasks created so far
    pc,                   \* position of each caller's coroutine
    loc,                  \* locals, send_event calls and return value of each caller's
                          \* current (or, when idle, last) call
    ncalls,               \* calls made so far
    ndelivered,           \* events the service emitted so far (event ids)
    arrivedText, arrivedAudio,   \* items in the order the receive loop queued them
    drainedText, drainedAudio,   \* items in the order get_response / get_audio_response returned them
    closedByEnd           \* an end_session has completed and no start was called since

VARIABLES
    personalized_video_job,          \* st.session_state.personalized_video_job
    personalized_video_in_progress,  \* st.session_state.personalized_video_in_progress
    personalized_video_url,          \* st.session_state.personalized_video_url
    remote,                          \* the async-invoke jobs of the video service
    nsubmits,                        \* start_async_invoke calls so far
    nqueries,                        \* get_async_invoke calls so far
    npolls,                          \* check_video_status calls so far
    lastPoll,                        \* what the last check_video_status met and returned
    video_notice                     \* the st.success / st.error the tab showed last

VARIABLES
    session_id,                 \* st.session_state.session_id
    uploaded_file,              \* the file held by the st.file_uploader widget
    current_image_hash,         \* st.session_state.current_image_hash
    analysis_complete,          \* st.session_state.analysis_complete
    profile_data,               \* st.session_state.profile_data
    recommendations_generated,  \* st.session_state.recommendations_generated
    recommendations_data,       \* st.session_state.recommendations_data
    collage_data,               \* st.session_state.collage_data
    collage_category,           \* st.session_state.collage_category
    video_generated,            \* st.session_state.video_generated
    video_url,                  \* st.session_state.video_url
    s3_key,                     \* st.session_state.s3_key
    NOVA_REEL_AVAILABLE,        \* module flag set by the import of nova_reel_generator
    app_calls,                  \* the remote calls the last script run made, in order
    app_last                    \* what the last script run was given and what it showed

VARIABLES
    analysis_text,              \* the argument of parse_analysis_text
    parsed_profile              \* what parse_analysis_text returned

VARIABLES
    agent_call_raises,          \* invoke_agent itself raises
    agent_events,               \* the events response['completion'] yields
    agent_result                \* what invoke_bedrock_agent returned and showed

VARIABLES
    invoker_input,              \* an invoker, its arguments and what the invocation gives
    invoker_result              \* what the invoker returned, showed and sent

VARIABLES
    bucket,                     \* the objects in the S3 bucket of the uploads
    upload_count,               \* upload_image_to_s3 calls so far
    upload_last                 \* the file of the last call, and what the call returned

VARIABLES
    nova_sonic_session,         \* st.session_state.nova_sonic_session holds a generator
    nova_sonic_active,          \* st.session_state.nova_sonic_active
    conversation_history,       \* st.session_state.conversation_history
    handed                      \* the events input_stream.send accepted, in order

sessionVars == <<session_id, uploaded_file, current_image_hash, analysis_complete, profile_data,
                 recommendations_generated, recommendations_data, collage_data, collage_category,
                 video_generated, video_url, s3_key>>
appVars == <<sessionVars, NOVA_REEL_AVAILABLE, app_calls, app_last>>
parseVars == <<analysis_text, parsed_profile>>
agentVars == <<agent_call_raises, agent_events, agent_result>>
invokerVars == <<invoker_input, invoker_result>>
uploadVars == <<bucket, upload_count, upload_last>>
chatVars == <<nova_sonic_session, nova_sonic_active, conversation_history, handed>>

videoVars == <<personalized_video_job, personalized_video_in_progress, personalized_video_url,
               remote, nsubmits, nqueries, npolls, lastPoll, video_notice>>

envVars == <<NOVA_SONIC_AVAILABLE, credentials, loop_mode>>
objVars == <<client, stream, is_active, audio_started>>
queueVars == <<response_queue, audio_queue, arrivedText, arrivedAudio, drainedText, drainedAudio>>
netVars == <<streams, tasks, ndelivered>>
voiceVars == <<envVars, objVars, queueVars, netVars, pc, loc, ncalls, closedByEnd>>
vars == <<voiceVars, videoVars, appVars, parseVars, agentVars, invokerVars, uploadVars, chatVars>>
\* what the voice session never touches
pageVars == <<videoVars, appVars, parseVars, agentVars, invokerVars, uploadVars>>
nonVoiceVars == <<videoVars, appVars, parseVars, agentVars, invokerVars, uploadVars, chatVars>>
\* what the video tab never touches
nonVideoVars == <<voiceVars, appVars, parseVars, agentVars, invokerVars, uploadVars, chatVars>>
\* what the main page never touches
nonAppVars == <<voiceVars, videoVars, parseVars, agentVars, invokerVars, uploadVars, chatVars>>
\* what parse_analysis_text never touches
nonParseVars == <<voiceVars, videoVars, appVars, agentVars, invokerVars, uploadVars, chatVars>>
\* what invoke_bedrock_agent never touches
nonAgentVars == <<voiceVars, videoVars, appVars, parseVars, invokerVars, uploadVars, chatVars>>
\* what a single invoker call never touches
nonInvokerVars == <<voiceVars, videoVars, appVars, parseVars, agentVars, uploadVars, chatVars>>
\* what upload_image_to_s3 never touches
nonUploadVars == <<voiceVars, videoVars, appVars, parseVars, agentVars, invokerVars, chatVars>>

Sids == 1..MaxStarts

NoStream == [est |-> FALSE, inClosed |-> FALSE, ok |-> TRUE, inbox |-> <<>>]
NoTask == [state |-> "none", on |-> 0]
NoCall == [op |-> "none", voice |-> "None", sel |-> "None", afterEnd |-> FALSE,
           afterErr |-> FALSE, estab |-> FALSE, wasActive |-> FALSE, audioOpen |-> FALSE,
           sent |-> <<>>, val |-> "-", item |-> NoItem]

VoiceInit ==
    /\ NOVA_SONIC_AVAILABLE \in BOOLEAN
    /\ credentials \in BOOLEAN
    /\ loop_mode \in {"persistent", "per_call"}
    /\ client = FALSE
    /\ stream = 0
    /\ is_active = FALSE
    /\ audio_started = FALSE
    /\ response_queue = <<>>
    /\ audio_queue = <<>>
    /\ streams = [s \in Sids |-> NoStream]
    /\ tasks = [k \in Sids |-> NoTask]
    /\ pc = [t \in Callers |-> "idle"]
    /\ loc = [t \in Callers |-> NoCall]
    /\ ncalls = 0
    /\ ndelivered = 0
    /\ arrivedText = <<>>
    /\ arrivedAudio = <<>>
    /\ drainedText = <<>>
    /\ drainedAudio = <<>>
    /\ closedByEnd = FALSE

\* ------------------------------------------------------------ voice: helpers
\* a task whose receive loop ended with the except branch because await_output
\* or receive raised
LoopErrored == \E k \in Sids : tasks[k].state = "transport_error"

\* input_stream.send accepts the event: a stream object exists, its input is not
\* closed and the transport is healthy; otherwise send raises
SendOK == /\ stream # 0
          /\ ~streams[stream].inClosed
          /\ streams[stream].ok

\* send_event: the event is handed to self.stream.input_stream.send; an exception
\* is caught and turned into False, which no caller looks at.  The value is the
\* call's list of send_event calls so far.
send_event(t, ev, role, voice) ==
    Append(loc[t].sent, [ev |-> ev, role |-> role, ok |-> SendOK, sid |-> stream, voice |-> voice])

\* the voice taken as it comes
SelectedVoiceUnchecked(voice_id) == voice_id

\* "selected_voice = voice_id if voice_id in self.voice_options else self.default_voice"
SelectedVoice(voice_id) == IF voice_id \in voice_options THEN voice_id ELSE default_voice

\* base64.b64decode of the content of an audioOutput event
B64Decode(content) == <<"bytes", content[2]>>

NewCall(op) == [NoCall EXCEPT !.op = op, !.afterEnd = closedByEnd, !.afterErr = LoopErrored]

CanCall(t) == pc[t] = "idle" /\ ncalls < MaxCalls

\* ------------------------------------------------- start_style_session
\* the two early "return False", else the request for a stream
CallStart(t, voice_id) ==
    /\ CanCall(t)
    /\ Cardinality({s \in Sids : streams[s].est})
         + Cardinality({u \in Callers : pc[u] = "start_await_stream"}) < MaxStarts
    /\ ncalls' = ncalls + 1
    /\ closedByEnd' = FALSE
    /\ IF ~NOVA_SONIC_AVAILABLE \/ (~client /\ ~credentials)
         THEN /\ pc' = pc
              /\ loc' = [loc EXCEPT ![t] = [NewCall("start") EXCEPT !.voice = voice_id,
                                                                    !.val = "False"]]
              /\ client' = client
         ELSE /\ pc' = [pc EXCEPT ![t] = "start_await_stream"]
              /\ loc' = [loc EXCEPT ![t] = [NewCall("start") EXCEPT !.voice = voice_id]]
              /\ client' = TRUE
    /\ UNCHANGED <<nonVoiceVars, envVars, stream, is_active, audio_started, queueVars, netVars>>

\* invoke_model_with_bidirectional_stream raised: "return False"
StartStreamFailed(t) ==
    /\ pc[t] = "start_await_stream"
    /\ pc' = [pc EXCEPT ![t] = "idle"]
    /\ loc' = [loc EXCEPT ![t].val = "False"]
    /\ UNCHANGED <<nonVoiceVars, envVars, objVars, queueVars, netVars, ncalls, closedByEnd>>

NextSid == Cardinality({s \in Sids : streams[s].est}) + 1

\* the stream is established: self.stream, is_active = True, selected_voice, sessionStart
StartStreamEstablished(t) ==
    /\ pc[t] = "start_await_stream"
    /\ NextSid \in Sids
    /\ streams' = [streams EXCEPT ![NextSid].est = TRUE]
    /\ stream' = NextSid
    /\ is_active' = TRUE
    /\ loc' = [loc EXCEPT ![t].estab = TRUE,
                          ![t].sel = SelectedVoice(loc[t].voice),
                          ![t].sent = Append(@, [ev |-> "sessionStart", role |-> "-",
                                                 ok |-> streams[NextSid].ok, sid |-> NextSid,
                                                 voice |-> "-"])]
    /\ pc' = [pc EXCEPT ![t] = "start_promptStart"]
    /\ UNCHANGED <<nonVoiceVars, envVars, client, audio_started, queueVars, tasks, ndelivered, ncalls,
                   closedByEnd>>

StartSendPromptStart(t) ==
    /\ pc[t] = "start_promptStart"
    /\ loc' = [loc EXCEPT ![t].sent = send_event(t, "promptStart", "-", loc[t].sel)]
    /\ pc' = [pc EXCEPT ![t] = "sys_contentStart"]
    /\ UNCHANGED <<nonVoiceVars, envVars, objVars, queueVars, netVars, ncalls, closedByEnd>>

\* _send_style_system_prompt
SysPromptContentStart(t) ==
    /\ pc[t] = "sys_contentStart"
    /\ loc' = [loc EXCEPT ![t].sent = send_event(t, "contentStart", "SYSTEM", "-")]
    /\ pc' = [pc EXCEPT ![t] = "sys_textInput"]
    /\ UNCHANGED <<nonVoiceVars, envVars, objVars, queueVars, netVars, ncalls, closedByEnd>>

SysPromptTextInput(t) ==
    /\ pc[t] = "sys_textInput"
    /\ loc' = [loc EXCEPT ![t].sent = send_event(t, "textInput", "SYSTEM", "-")]
    /\ pc' = [pc EXCEPT ![t] = "sys_contentEnd"]
    /\ UNCHANGED <<nonVoiceVars, envVars, objVars, queueVars, netVars, ncalls, closedByEnd>>

SysPromptContentEnd(t) ==
    /\ pc[t] = "sys_contentEnd"
    /\ loc' = [loc EXCEPT ![t].sent = send_event(t, "contentEnd", "SYSTEM", "-")]
    /\ pc' = [pc EXCEPT ![t] = "start_create_task"]
    /\ UNCHANGED <<nonVoiceVars, envVars, objVars, queueVars, netVars, ncalls, closedByEnd>>

NextTask == Cardinality({k \in Sids : tasks[k].state # "none"}) + 1

\* the state of a task after its loop test "while self.is_active", which it makes
\* when it is first run and after every event
LoopTest == IF is_active THEN [state |-> "waiting", on |-> stream]
                         ELSE [state |-> "exited", on |-> 0]

\* asyncio.create_task(self._process_responses()); return True.  In a loop that
\* run_until_complete stops as the call returns (start_nova_sonic_session) the
\* task runs up to its first await and is never resumed: loop.close() follows.
StartCreateTask(t) ==
    /\ pc[t] = "start_create_task"
    /\ NextTask \in Sids
    /\ tasks' = [tasks EXCEPT ![NextTask] =
                    IF loop_mode = "per_call" /\ LoopTest.state = "waiting"
                    THEN [state |-> "stranded", on |-> stream]
                    ELSE LoopTest]
    /\ pc' = [pc EXCEPT ![t] = "idle"]
    /\ loc' = [loc EXCEPT ![t].val = "True"]
    /\ UNCHANGED <<nonVoiceVars, envVars, objVars, queueVars, streams, ndelivered, ncalls, closedByEnd>>

\* ------------------------------------------------- send_text_message
\* no test of is_active; the first send_event is made as the call starts
CallSendText(t) ==
    /\ CanCall(t)
    /\ ncalls' = ncalls + 1
    /\ loc' = [loc EXCEPT ![t] = [NewCall("send_text") EXCEPT
                  !.sent = <<[ev |-> "contentStart", role |-> "USER", ok |-> SendOK,
                              sid |-> stream, voice |-> "-"]>>]]
    /\ pc' = [pc EXCEPT ![t] = "text_textInput"]
    /\ UNCHANGED <<nonVoiceVars, envVars, objVars, queueVars, netVars, closedByEnd>>

TextSendTextInput(t) ==
    /\ pc[t] = "text_textInput"
    /\ loc' = [loc EXCEPT ![t].sent = send_event(t, "textInput", "USER", "-")]
    /\ pc' = [pc EXCEPT ![t] = "text_contentEnd"]
    /\ UNCHANGED <<nonVoiceVars, envVars, objVars, queueVars, netVars, ncalls, closedByEnd>>

\* the last send_event, then "return True" whatever the three sends returned
TextSendContentEnd(t) ==
    /\ pc[t] = "text_contentEnd"
    /\ loc' = [loc EXCEPT ![t].sent = send_event(t, "contentEnd", "USER", "-"),
                          ![t].val = "True"]
    /\ pc' = [pc EXCEPT ![t] = "idle"]
    /\ UNCHANGED <<nonVoiceVars, envVars, objVars, queueVars, netVars, ncalls, closedByEnd>>

\* ------------------------------------------------- send_audio_chunk
\* "if not self.is_active: return False"; contentStart for the audio block when
\* _audio_started is not set, else the audioInput at once
CallSendAudio(t) ==
    /\ CanCall(t)
    /\ ncalls' = ncalls + 1
    /\ IF ~is_active
         THEN /\ loc' = [loc EXCEPT ![t] = [NewCall("send_audio") EXCEPT !.val = "False"]]
              /\ pc' = pc
         ELSE IF ~audio_started
         THEN /\ loc' = [loc EXCEPT ![t] = [NewCall("send_audio") EXCEPT !.wasActive = TRUE,
                            !.sent = <<[ev |-> "contentStart", role |-> "AUDIO", ok |-> SendOK,
                                        sid |-> stream, voice |-> "-"]>>]]
              /\ pc' = [pc EXCEPT ![t] = "audio_audioInput"]
         ELSE /\ loc' = [loc EXCEPT ![t] = [NewCall("send_audio") EXCEPT !.wasActive = TRUE,
                            !.audioOpen = TRUE, !.val = "True",
                            !.sent = <<[ev |-> "audioInput", role |-> "AUDIO", ok |-> SendOK,
                                        sid |-> stream, voice |-> "-"]>>]]
              /\ pc' = pc
    /\ UNCHANGED <<nonVoiceVars, envVars, objVars, queueVars, netVars, closedByEnd>>

\* after the contentStart: self._audio_started = True, send audioInput, return True
AudioSendAudioInput(t) ==
    /\ pc[t] = "audio_audioInput"
    /\ audio_started' = TRUE
    /\ loc' = [loc EXCEPT ![t].sent = send_event(t, "audioInput", "AUDIO", "-"),
                          ![t].val = "True"]
    /\ pc' = [pc EXCEPT ![t] = "idle"]
    /\ UNCHANGED <<nonVoiceVars, envVars, client, stream, is_active, queueVars, netVars, ncalls, closedByEnd>>

\* ------------------------------------------------- end_audio_input
CallEndAudioInput(t) ==
    /\ CanCall(t)
    /\ ncalls' = ncalls + 1
    /\ IF audio_started
         THEN /\ loc' = [loc EXCEPT ![t] = [NewCall("end_audio_input") EXCEPT !.audioOpen = TRUE,
                            !.sent = <<[ev |-> "contentEnd", role |-> "AUDIO", ok |-> SendOK,
                                        sid |-> stream, voice |-> "-"]>>]]
              /\ pc' = [pc EXCEPT ![t] = "endaudio_delattr"]
         ELSE /\ loc' = [loc EXCEPT ![t] = [NewCall("end_audio_input") EXCEPT !.val = "True"]]
              /\ pc' = pc
    /\ UNCHANGED <<nonVoiceVars, envVars, objVars, queueVars, netVars, closedByEnd>>

\* delattr(self, '_audio_started'); it raises AttributeError, which the except
\* turns into False, when another flow deleted the attribute meanwhile
EndAudioDelattr(t) ==
    /\ pc[t] = "endaudio_delattr"
    /\ audio_started' = FALSE
    /\ loc' = [loc EXCEPT ![t].val = IF audio_started THEN "True" ELSE "False"]
    /\ pc' = [pc EXCEPT ![t] = "idle"]
    /\ UNCHANGED <<nonVoiceVars, envVars, client, stream, is_active, queueVars, netVars, ncalls, closedByEnd>>

\* ------------------------------------------------- end_session
\* an end_session that forgets the open audio block
EndFirstStepsNoFlush(audio) == <<"is_active=False", "promptEnd">>

\* what end_session does before its first await once it found the session
\* active: is_active = False, then end_audio_input's test of _audio_started
\* decides whether contentEnd or promptEnd is the first event
EndFirstSteps(audio) ==
    IF audio THEN <<"is_active=False", "contentEnd">> ELSE <<"is_active=False", "promptEnd">>

\* "if not self.is_active: return"; else the first steps above
CallEndSession(t) ==
    /\ CanCall(t)
    /\ ncalls' = ncalls + 1
    /\ IF ~is_active
         THEN /\ loc' = [loc EXCEPT ![t] = [NewCall("end_session") EXCEPT !.val = "None"]]
              /\ pc' = pc
              /\ is_active' = is_active
         ELSE /\ LET first == EndFirstSteps(audio_started)
                 IN loc' = [loc EXCEPT ![t] = [NewCall("end_session") EXCEPT
                       !.wasActive = TRUE, !.audioOpen = audio_started,
                       !.sent = << [ev |-> first[1], role |-> "-", ok |-> TRUE, sid |-> stream,
                                    voice |-> "-"],
                                   [ev |-> first[2],
                                    role |-> IF first[2] = "contentEnd" THEN "AUDIO" ELSE "-",
                                    ok |-> SendOK, sid |-> stream, voice |-> "-"] >>]]
              /\ is_active' = FALSE
              /\ pc' = [pc EXCEPT ![t] = IF audio_started THEN "end_delattr" ELSE "end_sessionEnd"]
    /\ UNCHANGED <<nonVoiceVars, envVars, client, stream, audio_started, queueVars, netVars, closedByEnd>>

\* end_audio_input resumes: delattr, return; then end_session sends promptEnd
EndSendPromptEnd(t) ==
    /\ pc[t] = "end_delattr"
    /\ audio_started' = FALSE
    /\ loc' = [loc EXCEPT ![t].sent = send_event(t, "promptEnd", "-", "-")]
    /\ pc' = [pc EXCEPT ![t] = "end_sessionEnd"]
    /\ UNCHANGED <<nonVoiceVars, envVars, client, stream, is_active, queueVars, netVars, ncalls, closedByEnd>>

EndSendSessionEnd(t) ==
    /\ pc[t] = "end_sessionEnd"
    /\ loc' = [loc EXCEPT ![t].sent = send_event(t, "sessionEnd", "-", "-")]
    /\ pc' = [pc EXCEPT ![t] = "end_close"]
    /\ UNCHANGED <<nonVoiceVars, envVars, objVars, queueVars, netVars, ncalls, closedByEnd>>

\* await self.stream.input_stream.close(); an exception is logged and swallowed
EndCloseStream(t) ==
    /\ pc[t] = "end_close"
    /\ loc' = [loc EXCEPT ![t].sent = send_event(t, "close", "-", "-"), ![t].val = "None"]
    /\ streams' = IF SendOK THEN [streams EXCEPT ![stream].inClosed = TRUE] ELSE streams
    /\ closedByEnd' = TRUE
    /\ pc' = [pc EXCEPT ![t] = "idle"]
    /\ UNCHANGED <<nonVoiceVars, envVars, objVars, queueVars, tasks, ndelivered, ncalls>>

\* ------------------------------------------------- the two queues
\* a queue that puts the new item in front
QueuePutFront(q, item) == <<item>> \o q

\* queue.put on the unbounded asyncio.Queue: the item goes to the tail
QueuePut(q, item) == Append(q, item)

\* queue.get: the item at the head
QueueGet(q) == Head(q)

\* ------------------------------------------------- get_response / get_audio_response
\* asyncio.wait_for(queue.get(), timeout): the head of the queue, or None on timeout
get_response(t) ==
    /\ CanCall(t)
    /\ ncalls' = ncalls + 1
    /\ IF response_queue # <<>>
         THEN /\ loc' = [loc EXCEPT ![t] = [NewCall("get_response") EXCEPT
                                               !.val = "item", !.item = QueueGet(response_queue)]]
              /\ response_queue' = Tail(response_queue)
              /\ drainedText' = Append(drainedText, QueueGet(response_queue))
         ELSE /\ loc' = [loc EXCEPT ![t] = [NewCall("get_response") EXCEPT !.val = "None"]]
              /\ response_queue' = response_queue
              /\ drainedText' = drainedText
    /\ UNCHANGED <<nonVoiceVars, envVars, objVars, audio_queue, arrivedText, arrivedAudio, drainedAudio,
                   netVars, pc, closedByEnd>>

get_audio_response(t) ==
    /\ CanCall(t)
    /\ ncalls' = ncalls + 1
    /\ IF audio_queue # <<>>
         THEN /\ loc' = [loc EXCEPT ![t] = [NewCall("get_audio_response") EXCEPT
                                               !.val = "item", !.item = QueueGet(audio_queue)]]
              /\ audio_queue' = Tail(audio_queue)
              /\ drainedAudio' = Append(drainedAudio, QueueGet(audio_queue))
         ELSE /\ loc' = [loc EXCEPT ![t] = [NewCall("get_audio_response") EXCEPT !.val = "None"]]
              /\ audio_queue' = audio_queue
              /\ drainedAudio' = drainedAudio
    /\ UNCHANGED <<nonVoiceVars, envVars, objVars, response_queue, arrivedText, arrivedAudio, drainedText,
                   netVars, pc, closedByEnd>>

\* ------------------------------------------------- _process_responses
\* one iteration of the loop: the awaited event arrives on the stream the task
\* waits on, is decoded and queued, then "while self.is_active" is tested again.
\* json.loads of a malformed payload raises: the except branch logs and the loop
\* is over.
ProcessEvent(k) ==
    /\ tasks[k].state = "waiting"
    /\ streams[tasks[k].on].ok
    /\ streams[tasks[k].on].inbox # <<>>
    /\ LET s == tasks[k].on
           e == Head(streams[s].inbox)
       IN /\ streams' = [streams EXCEPT ![s].inbox = Tail(streams[s].inbox)]
          /\ tasks' = [tasks EXCEPT ![k] = IF e.kind = "malformed"
                                             THEN [state |-> "decode_error", on |-> 0]
                                             ELSE LoopTest]
          /\ IF e.kind = "textOutput"
               THEN /\ response_queue' = QueuePut(response_queue,
                            [type |-> "text", content |-> <<"text", e.id>>, sid |-> s])
                    /\ arrivedText' = Append(arrivedText,
                            [type |-> "text", content |-> <<"text", e.id>>, sid |-> s])
               ELSE UNCHANGED <<response_queue, arrivedText>>
          /\ IF e.kind = "audioOutput"
               THEN /\ audio_queue' = QueuePut(audio_queue,
                            [type |-> "audio", content |-> B64Decode(<<"b64", e.id>>), sid |-> s])
                    /\ arrivedAudio' = Append(arrivedAudio,
                            [type |-> "audio", content |-> B64Decode(<<"b64", e.id>>), sid |-> s])
               ELSE UNCHANGED <<audio_queue, arrivedAudio>>
    /\ UNCHANGED <<nonVoiceVars, envVars, objVars, drainedText, drainedAudio, ndelivered, pc, loc, ncalls,
                   closedByEnd>>

\* await_output / receive raise: "Error processing responses" is logged, the
\* loop exits, nothing else changes (is_active stays as it is, nothing reconnects)
ProcessTransportError(k) ==
    /\ tasks[k].state = "waiting"
    /\ ~streams[tasks[k].on].ok
    /\ tasks' = [tasks EXCEPT ![k] = [state |-> "transport_error", on |-> 0]]
    /\ UNCHANGED <<nonVoiceVars, envVars, objVars, queueVars, streams, ndelivered, pc, loc, ncalls,
                   closedByEnd>>

\* ------------------------------------------------- the service and the transport
\* the service emits one output event on an established stream
Deliver(s, kind) ==
    /\ streams[s].est
    /\ streams[s].ok
    /\ ndelivered < MaxDeliver
    /\ ndelivered' = ndelivered + 1
    /\ streams' = [streams EXCEPT ![s].inbox = Append(@, [kind |-> kind, id |-> ndelivered + 1])]
    /\ UNCHANGED <<nonVoiceVars, envVars, objVars, queueVars, tasks, pc, loc, ncalls, closedByEnd>>

\* the transport of a stream breaks (or the service ends the stream): from now
\* on input_stream.send and await_output / receive raise; pending output is lost
TransportFail(s) ==
    /\ streams[s].est
    /\ streams[s].ok
    /\ streams' = [streams EXCEPT ![s].ok = FALSE, ![s].inbox = <<>>]
    /\ UNCHANGED <<nonVoiceVars, envVars, objVars, queueVars, tasks, ndelivered, pc, loc, ncalls, closedByEnd>>

\* ------------------------------------------------- voice: specification
VoiceNext ==
    \/ \E t \in MainFlow :
          \/ \E v \in VoiceInputs : CallStart(t, v)
          \/ StartStreamFailed(t)
          \/ StartStreamEstablished(t)
          \/ StartSendPromptStart(t)
          \/ SysPromptContentStart(t)
          \/ SysPromptTextInput(t)
          \/ SysPromptContentEnd(t)
          \/ StartCreateTask(t)
          \/ CallSendText(t)
          \/ TextSendTextInput(t)
          \/ TextSendContentEnd(t)
          \/ CallSendAudio(t)
          \/ AudioSendAudioInput(t)
          \/ CallEndAudioInput(t)
          \/ EndAudioDelattr(t)
          \/ CallEndSession(t)
          \/ EndSendPromptEnd(t)
          \/ EndSendSessionEnd(t)
          \/ EndCloseStream(t)
          \/ get_response(t)
          \/ get_audio_response(t)
    \/ \E k \in Sids :
          \/ ProcessEvent(k)
          \/ ProcessTransportError(k)
          \/ \E kind \in EventKinds : Deliver(k, kind)
          \/ TransportFail(k)

\* =========================================================================
\* The personalized-video tab (true_image_video_component.py) and the job
\* tracker (true_image_to_video_generator.py).  A string is a sequence of
\* characters; names that are never taken apart are one character each.
\* =========================================================================
MaxJobs == 2
MaxPolls == 3

\* invocation ARNs the service may return: no, one and two '/' in them
JobIds == { <<"j">>, <<"arn", "/", "k">>, <<"arn", "/", "x", "/", "m">> }

\* f"s3://{self.s3_bucket}" with S3_BUCKET of the component, echoed by the service
S3OutputUri == <<"s3:", "/", "/", "essencemirror-user-uploads">>

RemoteStatuses == {"InProgress", "Completed", "Failed"}
\* failureMessage of a failed job; "absent" when the response has none
FailureMessages == {"absent", "quota exceeded"}

NoUrl == <<>>
NoJob == [videoJobId |-> <<>>, status |-> "None", videoUrl |-> NoUrl, errorMessage |-> "None"]
NoRemote == [id |-> <<>>, status |-> "none", failureMessage |-> "absent"]
NoPoll == [raised |-> FALSE, status |-> "none", failureMessage |-> "absent", s3Uri |-> NoUrl,
           job_id |-> <<>>, before |-> NoJob, result |-> NoJob, in_progress |-> FALSE]

VideoInit ==
    /\ personalized_video_job = NoJob
    /\ personalized_video_in_progress = FALSE
    /\ personalized_video_url = NoUrl
    /\ remote = [k \in 1..MaxJobs |-> NoRemote]
    /\ nsubmits = 0
    /\ nqueries = 0
    /\ npolls = 0
    /\ lastPoll = NoPoll
    /\ video_notice = "none"

\* str.split('/'): the pieces between the separators, empty pieces included
RECURSIVE Split(_)
Split(str) ==
    IF \A i \in 1..Len(str) : str[i] # "/"
    THEN <<str>>
    ELSE LET i == CHOOSE i \in 1..Len(str) :
                     str[i] = "/" /\ \A j \in 1..(i - 1) : str[j] # "/"
         IN <<SubSeq(str, 1, i - 1)>> \o Split(SubSeq(str, i + 1, Len(str)))

\* the first piece instead of the last
JobFolderFirst(job_id) == Split(job_id)[1]

\* job_folder = job_id.split('/')[-1]
JobFolder(job_id) == Split(job_id)[Len(Split(job_id))]

\* video_url = f"{s3_uri}/{job_folder}/output.mp4"
VideoUrl(s3_uri, job_id) == s3_uri \o <<"/">> \o JobFolder(job_id) \o <<"/", "output.mp4">>

\* response.get("failureMessage", "Personalized video generation failed")
FailureMessageOf(resp) ==
    IF resp.failureMessage = "absent" THEN "Personalized video generation failed"
                                      ELSE resp.failureMessage

\* TrueImageToVideoGenerator.check_job_status: resp is what get_async_invoke did,
\* resp.raises when it raised
check_job_status(job_id, resp) ==
    IF resp.raises
    THEN [job_id |-> job_id, status |-> "ERROR", video_url |-> NoUrl,
          message |-> "Error checking job status"]
    ELSE IF resp.status = "Completed"
    THEN [job_id |-> job_id, status |-> resp.status, video_url |-> VideoUrl(resp.s3Uri, job_id),
          message |-> "Personalized video generation completed successfully"]
    ELSE IF resp.status = "Failed"
    THEN [job_id |-> job_id, status |-> resp.status, video_url |-> NoUrl,
          message |-> FailureMessageOf(resp)]
    ELSE [job_id |-> job_id, status |-> resp.status, video_url |-> NoUrl,
          message |-> "Personalized video generation in progress"]

\* get_async_invoke calls one check_job_status makes
QueriesPerCheck == 1

\* the URL added to what the record holds instead of replacing it
check_video_status_append(job_info, resp) ==
    LET status_result == check_job_status(job_info.videoJobId, resp)
        job_status == status_result.status
    IN IF job_status = "Completed"
       THEN [job_info EXCEPT !.status = "VIDEO_GENERATED",
                             !.videoUrl = job_info.videoUrl \o status_result.video_url]
       ELSE IF job_status = "Failed"
       THEN [job_info EXCEPT !.status = "VIDEO_GENERATION_FAILED",
                             !.errorMessage = status_result.message]
       ELSE [job_info EXCEPT !.status = "VIDEO_GENERATION_IN_PROGRESS"]

\* check_video_status of true_image_video_component.py: the job record after the
\* poll.  Its except branch (status "ERROR") needs the generator's constructor or
\* job_info["videoJobId"] to raise; the record always has the key and the same
\* constructor call succeeded when the job was submitted, so it is not taken.
check_video_status(job_info, resp) ==
    LET status_result == check_job_status(job_info.videoJobId, resp)
        job_status == status_result.status
    IN IF job_status = "Completed"
       THEN [job_info EXCEPT !.status = "VIDEO_GENERATED", !.videoUrl = status_result.video_url]
       ELSE IF job_status = "Failed"
       THEN [job_info EXCEPT !.status = "VIDEO_GENERATION_FAILED",
                             !.errorMessage = status_result.message]
       ELSE [job_info EXCEPT !.status = "VIDEO_GENERATION_IN_PROGRESS"]

\* the remote job a stored job record points at
RemoteOf(job_id) == CHOOSE k \in 1..MaxJobs : remote[k].id = job_id

\* "Generate My Personalized Style Video", shown while nothing is in progress:
\* start_async_invoke returned an invocation ARN; the job record is stored
GenerateVideo(job_id) ==
    /\ ~personalized_video_in_progress
    /\ nsubmits < MaxJobs
    /\ \A k \in 1..MaxJobs : remote[k].id # job_id
    /\ nsubmits' = nsubmits + 1
    /\ remote' = [remote EXCEPT ![nsubmits + 1] =
                     [id |-> job_id, status |-> "InProgress", failureMessage |-> "absent"]]
    /\ personalized_video_job' = [NoJob EXCEPT !.videoJobId = job_id,
                                               !.status = "VIDEO_GENERATION_STARTED"]
    /\ personalized_video_in_progress' = TRUE
    /\ video_notice' = "being created"
    /\ UNCHANGED <<nonVideoVars, personalized_video_url, nqueries, npolls, lastPoll>>

\* the same button when the image could not be saved, the image could not be
\* prepared or start_async_invoke raised: st.error, nothing is stored
GenerateVideoFails ==
    /\ ~personalized_video_in_progress
    /\ video_notice' = "error starting generation"
    /\ UNCHANGED <<nonVideoVars, personalized_video_job, personalized_video_in_progress,
                   personalized_video_url, remote, nsubmits, nqueries, npolls, lastPoll>>

\* the button shown whenever a job record is stored
CheckStatusShownAlways == personalized_video_job # NoJob

\* "Check Status" is rendered in the else branch of "if not
\* personalized_video_in_progress", and only when a job record is stored
CheckStatusShown ==
    /\ personalized_video_in_progress
    /\ personalized_video_job # NoJob

\* "Check Status", shown while a job is in progress
CheckStatus(raises) ==
    /\ CheckStatusShown
    /\ npolls < MaxPolls
    /\ LET r == remote[RemoteOf(personalized_video_job.videoJobId)]
           resp == [raises |-> raises, status |-> r.status, s3Uri |-> S3OutputUri,
                    failureMessage |-> r.failureMessage]
           updated_job == check_video_status(personalized_video_job, resp)
           still == /\ updated_job.status # "VIDEO_GENERATED"
                    /\ updated_job.status # "VIDEO_GENERATION_FAILED"
                    /\ updated_job.status # "ERROR"
       IN /\ personalized_video_job' = updated_job
          /\ personalized_video_in_progress' = still
          /\ personalized_video_url' = IF updated_job.status = "VIDEO_GENERATED"
                                         THEN updated_job.videoUrl
                                         ELSE personalized_video_url
          /\ lastPoll' = [raised |-> raises, status |-> r.status,
                          failureMessage |-> r.failureMessage, s3Uri |-> S3OutputUri,
                          job_id |-> personalized_video_job.videoJobId,
                          before |-> personalized_video_job,
                          result |-> updated_job, in_progress |-> still]
          /\ video_notice' = IF updated_job.status = "VIDEO_GENERATED" THEN "ready"
                              ELSE IF updated_job.status = "VIDEO_GENERATION_FAILED"
                              THEN "generation failed"
                              ELSE IF updated_job.status = "ERROR" THEN "error"
                              ELSE video_notice
    /\ nqueries' = nqueries + QueriesPerCheck
    /\ npolls' = npolls + 1
    /\ UNCHANGED <<nonVideoVars, remote, nsubmits>>

\* "Generate New", shown while a video URL is stored
GenerateNew ==
    /\ personalized_video_url # NoUrl
    /\ personalized_video_job' = NoJob
    /\ personalized_video_in_progress' = FALSE
    /\ personalized_video_url' = NoUrl
    /\ UNCHANGED <<nonVideoVars, remote, nsubmits, nqueries, npolls, lastPoll, video_notice>>

\* the service finishes a job
RemoteFinish(k, status, msg) ==
    /\ remote[k].status = "InProgress"
    /\ status # "InProgress"
    /\ status = "Completed" => msg = "absent"
    /\ remote' = [remote EXCEPT ![k].status = status, ![k].failureMessage = msg]
    /\ UNCHANGED <<nonVideoVars, personalized_video_job, personalized_video_in_progress,
                   personalized_video_url, nsubmits, nqueries, npolls, lastPoll, video_notice>>

\* a caller that holds a job record polls it with check_video_status, whatever
\* the record's status is
Poll(raises) ==
    /\ personalized_video_job # NoJob
    /\ npolls < MaxPolls
    /\ LET r == remote[RemoteOf(personalized_video_job.videoJobId)]
           resp == [raises |-> raises, status |-> r.status, s3Uri |-> S3OutputUri,
                    failureMessage |-> r.failureMessage]
           updated_job == check_video_status(personalized_video_job, resp)
       IN /\ personalized_video_job' = updated_job
          /\ lastPoll' = [raised |-> raises, status |-> r.status,
                          failureMessage |-> r.failureMessage, s3Uri |-> S3OutputUri,
                          job_id |-> personalized_video_job.videoJobId,
                          before |-> personalized_video_job,
                          result |-> updated_job, in_progress |-> personalized_video_in_progress]
    /\ nqueries' = nqueries + QueriesPerCheck
    /\ npolls' = npolls + 1
    /\ UNCHANGED <<nonVideoVars, personalized_video_in_progress, personalized_video_url,
                   remote, nsubmits, video_notice>>

VideoNext ==
    \/ \E job_id \in JobIds : GenerateVideo(job_id)
    \/ GenerateVideoFails
    \/ \E raises \in BOOLEAN : CheckStatus(raises)
    \/ GenerateNew
    \/ \E k \in 1..MaxJobs, status \in RemoteStatuses, msg \in FailureMessages :
          RemoteFinish(k, status, msg)

\* =========================================================================
\* The main page (app.py): text helpers, parse_analysis_text, the invokers and
\* the handlers of main.  A text is a sequence of one-character strings.
\* =========================================================================
\* str.lower() on the letters A-Z
UpperCase == {"A", "B", "C", "D", "E", "F", "G", "H", "I", "J", "K", "L", "M",
              "N", "O", "P", "Q", "R", "S", "T", "U", "V", "W", "X", "Y", "Z"}
LowerOf ==
    ("A" :> "a") @@ ("B" :> "b") @@ ("C" :> "c") @@ ("D" :> "d") @@ ("E" :> "e") @@ ("F" :> "f") @@
    ("G" :> "g") @@ ("H" :> "h") @@ ("I" :> "i") @@ ("J" :> "j") @@ ("K" :> "k") @@ ("L" :> "l") @@
    ("M" :> "m") @@ ("N" :> "n") @@ ("O" :> "o") @@ ("P" :> "p") @@ ("Q" :> "q") @@ ("R" :> "r") @@
    ("S" :> "s") @@ ("T" :> "t") @@ ("U" :> "u") @@ ("V" :> "v") @@ ("W" :> "w") @@ ("X" :> "x") @@
    ("Y" :> "y") @@ ("Z" :> "z")

LowerChar(c) == IF c \in UpperCase THEN LowerOf[c] ELSE c
Lower(text) == [i \in 1..Len(text) |-> LowerChar(text[i])]

\* "word in text": word occurs in text as a run of consecutive characters
Contains(text, word) ==
    \E i \in 1..(Len(text) - Len(word) + 1) : SubSeq(text, i, i + Len(word) - 1) = word

\* sum(1 for word in words if word in text)
CountIn(words, text) == Cardinality({w \in words : Contains(text, w)})

\* any(word in text for word in words)
AnyIn(words, text) == \E w \in words : Contains(text, w)

\* male_indicators (no word twice)
male_indicators ==
    { <<"b", "o", "y">>,
      <<"m", "a", "n">>,
      <<"m", "a", "l", "e">>,
      <<"m", "a", "s", "c", "u", "l", "i", "n", "e">>,
      <<"h", "i", "m">>,
      <<"h", "i", "s">>,
      <<"h", "e">>,
      <<"g", "e", "n", "t", "l", "e", "m", "a", "n">>,
      <<"g", "u", "y">> }

\* female_indicators
female_indicators ==
    { <<"g", "i", "r", "l">>,
      <<"w", "o", "m", "a", "n">>,
      <<"f", "e", "m", "a", "l", "e">>,
      <<"f", "e", "m", "i", "n", "i", "n", "e">>,
      <<"h", "e", "r">>,
      <<"h", "e", "r", "s">>,
      <<"s", "h", "e">>,
      <<"l", "a", "d", "y">>,
      <<"g", "a", "l">>,
      <<"p", "r", "e", "g", "n", "a", "n", "t">>,
      <<"p", "r", "e", "g", "n", "a", "n", "c", "y">> }

\* youth_indicators
youth_indicators ==
    { <<"c", "h", "i", "l", "d">>,
      <<"k", "i", "d">>,
      <<"y", "o", "u", "n", "g">>,
      <<"y", "o", "u", "t", "h">>,
      <<"t", "e", "e", "n">>,
      <<"a", "d", "o", "l", "e", "s", "c", "e", "n", "t">>,
      <<"b", "o", "y">>,
      <<"g", "i", "r", "l">>,
      <<"s", "t", "u", "d", "e", "n", "t">>,
      <<"s", "c", "h", "o", "o", "l">> }

\* adult_indicators
adult_indicators ==
    { <<"a", "d", "u", "l", "t">>,
      <<"p", "r", "o", "f", "e", "s", "s", "i", "o", "n", "a", "l">>,
      <<"m", "a", "t", "u", "r", "e">>,
      <<"w", "o", "m", "a", "n">>,
      <<"m", "a", "n">>,
      <<"p", "r", "e", "g", "n", "a", "n", "t">>,
      <<"m", "o", "t", "h", "e", "r">>,
      <<"f", "a", "t", "h", "e", "r">> }

\* the words of the athletic test
athletic_words ==
    { <<"a", "t", "h", "l", "e", "t", "i", "c">>,
      <<"s", "p", "o", "r", "t">>,
      <<"a", "c", "t", "i", "v", "e">>,
      <<"f", "i", "t", "n", "e", "s", "s">>,
      <<"g", "y", "m">>,
      <<"s", "o", "c", "c", "e", "r">>,
      <<"f", "o", "o", "t", "b", "a", "l", "l">>,
      <<"b", "a", "s", "k", "e", "t", "b", "a", "l", "l">>,
      <<"r", "u", "n", "n", "i", "n", "g">> }

\* the words of the casual test
casual_words ==
    { <<"c", "a", "s", "u", "a", "l">>,
      <<"r", "e", "l", "a", "x", "e", "d">>,
      <<"e", "v", "e", "r", "y", "d", "a", "y">>,
      <<"c", "o", "m", "f", "o", "r", "t", "a", "b", "l", "e">> }

\* the words of the professional test
professional_words ==
    { <<"f", "o", "r", "m", "a", "l">>,
      <<"p", "r", "o", "f", "e", "s", "s", "i", "o", "n", "a", "l">>,
      <<"b", "u", "s", "i", "n", "e", "s", "s">>,
      <<"w", "o", "r", "k">>,
      <<"o", "f", "f", "i", "c", "e">> }

\* the words of the creative test
creative_words ==
    { <<"c", "r", "e", "a", "t", "i", "v", "e">>,
      <<"a", "r", "t", "i", "s", "t", "i", "c">>,
      <<"e", "x", "p", "r", "e", "s", "s", "i", "v", "e">>,
      <<"u", "n", "i", "q", "u", "e">>,
      <<"i", "n", "d", "i", "v", "i", "d", "u", "a", "l">> }

\* the words of the maternity test
maternity_words ==
    { <<"p", "r", "e", "g", "n", "a", "n", "t">>,
      <<"p", "r", "e", "g", "n", "a", "n", "c", "y">>,
      <<"e", "x", "p", "e", "c", "t", "i", "n", "g">>,
      <<"m", "a", "t", "e", "r", "n", "i", "t", "y">> }

\* an analysis_text is a str, or some other object (None, a number, a dict)
Text(chars) == [str |-> chars]
NotText == [other |-> "None"]
IsStr(x) == "str" \in DOMAIN x

\* "# Detect gender": the larger count of list words found in the text wins
DetectGender(text_lower) ==
    LET male_count == CountIn(male_indicators, text_lower)
        female_count == CountIn(female_indicators, text_lower)
    IN IF male_count > female_count THEN "male"
       ELSE IF female_count > male_count THEN "female"
       ELSE "unspecified"

\* as DetectAgeGroup, with equal counts taken for youth
DetectAgeGroupTies(text_lower) ==
    LET youth_count == CountIn(youth_indicators, text_lower)
        adult_count == CountIn(adult_indicators, text_lower)
    IN IF youth_count >= adult_count THEN "youth" ELSE "adult"

\* "# Detect age group"
DetectAgeGroup(text_lower) ==
    LET youth_count == CountIn(youth_indicators, text_lower)
        adult_count == CountIn(adult_indicators, text_lower)
    IN IF youth_count > adult_count THEN "youth" ELSE "adult"

\* "# Detect style category": the if / elif chain; "general" is the default
DetectStyleCategory(text_lower) ==
    IF AnyIn(athletic_words, text_lower) THEN "athletic"
    ELSE IF AnyIn(casual_words, text_lower) THEN "casual"
    ELSE IF AnyIn(professional_words, text_lower) THEN "professional"
    ELSE IF AnyIn(creative_words, text_lower) THEN "creative"
    ELSE "general"

\* as DetectArchetype, with the youth test before the creative test
DetectArchetypeYouthFirst(text_lower, gender, age_group, style_category) ==
    IF age_group = "youth" /\ style_category = "athletic"
    THEN [archetype |-> IF gender = "male" THEN "Young Athletic Boy"
                        ELSE IF gender = "female" THEN "Young Athletic Girl"
                        ELSE "Young Athlete",
          visual_style |-> IF gender \in {"male", "female"}
                           THEN <<"Sporty", "Active", "Comfortable", "Youthful">>
                           ELSE <<"Sporty", "Active", "Comfortable">>,
          energetic_essence |-> <<"Energetic", "Playful", "Active", "Confident">>,
          style_category |-> style_category]
    ELSE IF gender = "female" /\ AnyIn(maternity_words, text_lower)
    THEN [archetype |-> "Expecting Mother",
          visual_style |-> <<"Comfortable", "Adaptable", "Feminine", "Practical">>,
          energetic_essence |-> <<"Nurturing", "Glowing", "Anticipatory", "Graceful">>,
          style_category |-> "maternity"]
    ELSE IF style_category = "athletic"
    THEN [archetype |-> IF gender = "male" THEN "Athletic Professional (Male)"
                        ELSE IF gender = "female" THEN "Athletic Professional (Female)"
                        ELSE "Athletic Professional",
          visual_style |-> IF gender = "male"
                           THEN <<"Performance-focused", "Modern", "Functional", "Masculine">>
                           ELSE IF gender = "female"
                           THEN <<"Performance-focused", "Modern", "Functional", "Feminine">>
                           ELSE <<"Performance-focused", "Modern", "Functional">>,
          energetic_essence |-> <<"Dynamic", "Health-conscious", "Active">>,
          style_category |-> style_category]
    ELSE IF age_group = "youth"
    THEN [archetype |-> "Young Individual",
          visual_style |-> <<"Youthful", "Casual", "Comfortable">>,
          energetic_essence |-> <<"Energetic", "Playful", "Authentic">>,
          style_category |-> style_category]
    ELSE IF style_category = "creative"
    THEN [archetype |-> "Creative Individual",
          visual_style |-> <<"Artistic", "Expressive", "Contemporary">>,
          energetic_essence |-> <<"Innovative", "Authentic", "Confident">>,
          style_category |-> style_category]
    ELSE IF gender = "male"
    THEN [archetype |-> "Modern Man",
          visual_style |-> <<"Contemporary", "Versatile", "Masculine">>,
          energetic_essence |-> <<"Confident", "Authentic", "Grounded">>,
          style_category |-> style_category]
    ELSE IF gender = "female"
    THEN [archetype |-> "Modern Woman",
          visual_style |-> <<"Contemporary", "Versatile", "Feminine">>,
          energetic_essence |-> <<"Confident", "Authentic", "Elegant">>,
          style_category |-> style_category]
    ELSE [archetype |-> "Modern Individual",
          visual_style |-> <<"Contemporary", "Versatile">>,
          energetic_essence |-> <<"Confident", "Authentic">>,
          style_category |-> style_category]

\* "# Extract archetype ...": the archetype, the two tag lists and the final
\* style_category (the maternity branch rewrites it)
DetectArchetype(text_lower, gender, age_group, style_category) ==
    IF age_group = "youth" /\ style_category = "athletic"
    THEN [archetype |-> IF gender = "male" THEN "Young Athletic Boy"
                        ELSE IF gender = "female" THEN "Young Athletic Girl"
                        ELSE "Young Athlete",
          visual_style |-> IF gender \in {"male", "female"}
                           THEN <<"Sporty", "Active", "Comfortable", "Youthful">>
                           ELSE <<"Sporty", "Active", "Comfortable">>,
          energetic_essence |-> <<"Energetic", "Playful", "Active", "Confident">>,
          style_category |-> style_category]
    ELSE IF gender = "female" /\ AnyIn(maternity_words, text_lower)
    THEN [archetype |-> "Expecting Mother",
          visual_style |-> <<"Comfortable", "Adaptable", "Feminine", "Practical">>,
          energetic_essence |-> <<"Nurturing", "Glowing", "Anticipatory", "Graceful">>,
          style_category |-> "maternity"]
    ELSE IF style_category = "athletic"
    THEN [archetype |-> IF gender = "male" THEN "Athletic Professional (Male)"
                        ELSE IF gender = "female" THEN "Athletic Professional (Female)"
                        ELSE "Athletic Professional",
          visual_style |-> IF gender = "male"
                           THEN <<"Performance-focused", "Modern", "Functional", "Masculine">>
                           ELSE IF gender = "female"
                           THEN <<"Performance-focused", "Modern", "Functional", "Feminine">>
                           ELSE <<"Performance-focused", "Modern", "Functional">>,
          energetic_essence |-> <<"Dynamic", "Health-conscious", "Active">>,
          style_category |-> style_category]
    ELSE IF style_category = "creative"
    THEN [archetype |-> "Creative Individual",
          visual_style |-> <<"Artistic", "Expressive", "Contemporary">>,
          energetic_essence |-> <<"Innovative", "Authentic", "Confident">>,
          style_category |-> style_category]
    ELSE IF age_group = "youth"
    THEN [archetype |-> "Young Individual",
          visual_style |-> <<"Youthful", "Casual", "Comfortable">>,
          energetic_essence |-> <<"Energetic", "Playful", "Authentic">>,
          style_category |-> style_category]
    ELSE IF gender = "male"
    THEN [archetype |-> "Modern Man",
          visual_style |-> <<"Contemporary", "Versatile", "Masculine">>,
          energetic_essence |-> <<"Confident", "Authentic", "Grounded">>,
          style_category |-> style_category]
    ELSE IF gender = "female"
    THEN [archetype |-> "Modern Woman",
          visual_style |-> <<"Contemporary", "Versatile", "Feminine">>,
          energetic_essence |-> <<"Confident", "Authentic", "Elegant">>,
          style_category |-> style_category]
    ELSE [archetype |-> "Modern Individual",
          visual_style |-> <<"Contemporary", "Versatile">>,
          energetic_essence |-> <<"Confident", "Authentic">>,
          style_category |-> style_category]

\* as FallbackProfile, without the narrative
FallbackProfileNoNarrative(text) ==
    [archetype |-> "Style Enthusiast",
     visual_style |-> <<"Contemporary">>,
     energetic_essence |-> <<"Confident">>,
     gender |-> "unspecified",
     age_group |-> "adult",
     detailed_analysis |-> [dropped |-> TRUE]]

\* the profile the except branch returns; it has no style_category
FallbackProfile(text) ==
    [archetype |-> "Style Enthusiast",
     visual_style |-> <<"Contemporary">>,
     energetic_essence |-> <<"Confident">>,
     gender |-> "unspecified",
     age_group |-> "adult",
     detailed_analysis |-> text]

\* as parse_analysis_text, with the image of the session taken into account
parse_analysis_text_by_session(text) ==
    IF ~IsStr(text) THEN FallbackProfile(text)
    ELSE LET text_lower == Lower(text.str)
             gender == DetectGender(text_lower)
             age_group == DetectAgeGroup(text_lower)
             a == DetectArchetype(text_lower, gender, age_group, DetectStyleCategory(text_lower))
         IN [archetype |-> a.archetype,
             visual_style |-> a.visual_style,
             energetic_essence |-> a.energetic_essence,
             age_group |-> age_group,
             style_category |-> a.style_category,
             gender |-> gender,
             detailed_analysis |-> text,
             image_id |-> current_image_hash]

\* parse_analysis_text: the profile it returns.  analysis_text.lower() is the
\* first thing that can raise, for a non-str; the except branch then shows
\* st.error and returns the fixed profile.
parse_analysis_text(text) ==
    IF ~IsStr(text) THEN FallbackProfile(text)
    ELSE LET text_lower == Lower(text.str)
             gender == DetectGender(text_lower)
             age_group == DetectAgeGroup(text_lower)
             a == DetectArchetype(text_lower, gender, age_group, DetectStyleCategory(text_lower))
         IN [archetype |-> a.archetype,
             visual_style |-> a.visual_style,
             energetic_essence |-> a.energetic_essence,
             age_group |-> age_group,
             style_category |-> a.style_category,
             gender |-> gender,
             detailed_analysis |-> text]

\* ----------------------------------------------------- narratives tried
\* words a narrative is made of: indicator words in several cases of letters,
\* words that contain an indicator word, and words of the other word lists
Vocabulary ==
    { <<"m", "a", "n">>,
      <<"W", "o", "m", "a", "n">>,
      <<"S", "h", "e">>,
      <<"l", "a", "d", "y">>,
      <<"B", "O", "Y">>,
      <<"t", "h", "e">>,
      <<"y", "o", "u", "n", "g">>,
      <<"s", "o", "c", "c", "e", "r">>,
      <<"a", "r", "t", "i", "s", "t", "i", "c">>,
      <<"p", "r", "e", "g", "n", "a", "n", "t">>,
      <<"o", "f", "f", "i", "c", "e">>,
      <<"a", "d", "u", "l", "t">>,
      <<"r", "e", "l", "a", "x", "e", "d">> }

ExampleNarrative ==
    << "T", "h", "i", "s", " ", "y", "o", "u", "n", "g", " ", "b", "o", "y",
       " ", "l", "o", "v", "e", "s", " ", "s", "o", "c", "c", "e", "r", " ",
       "a", "n", "d", " ", "w", "e", "a", "r", "s", " ", "s", "p", "o", "r",
       "t", "y", " ", "s", "n", "e", "a", "k", "e", "r", "s" >>

\* one word, two words with a blank between them, and the example
Narratives ==
    {Text(w) : w \in Vocabulary}
        \cup {Text(w[1] \o <<" ">> \o w[2]) : w \in Vocabulary \X Vocabulary}
        \cup {Text(ExampleNarrative)}

\* what parse_analysis_text may be given: a narrative, or something that is no str
ParseInputs == Narratives \cup {NotText}

NoParse == [called |-> FALSE]

ParseInit ==
    /\ analysis_text \in ParseInputs
    /\ parsed_profile = NoParse

\* a call of parse_analysis_text(analysis_text)
Parse ==
    /\ ~parsed_profile.called
    /\ parsed_profile' = [called |-> TRUE, profile |-> parse_analysis_text(analysis_text),
                          error_shown |-> ~IsStr(analysis_text)]
    /\ UNCHANGED <<nonParseVars, analysis_text>>

MaxParses == 2

\* how often parse_analysis_text was called again on the same narrative
ParsedAgain == IF "again" \in DOMAIN parsed_profile THEN parsed_profile.again ELSE 0

\* another call of parse_analysis_text(analysis_text), later in the visit
ParseAgain ==
    /\ parsed_profile.called
    /\ ParsedAgain < MaxParses
    /\ parsed_profile' = [called |-> TRUE, profile |-> parse_analysis_text(analysis_text),
                          error_shown |-> ~IsStr(analysis_text), again |-> ParsedAgain + 1]
    /\ UNCHANGED <<nonParseVars, analysis_text>>


\* ------------------------------------------------- values and responses
\* Python's None
NoneVal == [none |-> TRUE]
\* a dict without keys
EmptyDict == [k \in {} |-> NoneVal]

\* st.error / st.success / st.info as the page shows them
Notice(level, prefix, detail) == [level |-> level, prefix |-> prefix, detail |-> detail]

\* json.dumps of a document, and a text that is not JSON
JsonText(doc) == [valid |-> TRUE, doc |-> doc]
NotJson == [valid |-> FALSE]

\* the ways the function wraps a result: the fields directly in responseBody,
\* a JSON text under responseBody['application/json']['body'], and a
\* responseBody that is itself a str holding the JSON text
Shapes == {"direct", "json_string", "raw_string"}

\* responseBody for a logical body in a shape; a str is described by the keys
\* that occur in it
ResponseBody(body, shape) ==
    IF shape = "direct" THEN [t |-> "dict", d |-> body]
    ELSE IF shape = "json_string"
    THEN [t |-> "dict", d |-> ("application/json" :> [body |-> JsonText(body)])]
    ELSE [t |-> "str", has |-> DOMAIN body]

\* what clients['lambda'].invoke and the read of its Payload give:
\*   wrapped      {"response": {"responseBody": ...}}
\*   bad_json     as json_string, with a body that json.loads rejects
\*   no_body      {"response": {}}
\*   lambda_error {"errorMessage": ...}, the function itself raised
\*   raises       invoke raises (throttling, no permission, no network)
Wrapped(body, shape) == [kind |-> "wrapped", body |-> body, shape |-> shape]
BadJson == [kind |-> "bad_json", body |-> EmptyDict, shape |-> "json_string"]
NoBody == [kind |-> "no_body", body |-> EmptyDict, shape |-> "direct"]
LambdaError == [kind |-> "lambda_error", body |-> EmptyDict, shape |-> "direct"]
InvokeRaises == [kind |-> "raises", body |-> EmptyDict, shape |-> "direct"]

\* response_payload = json.loads(lambda_response['Payload'].read())
response_payload(r) ==
    IF r.kind = "wrapped"
    THEN [response |-> [responseBody |-> ResponseBody(r.body, r.shape)]]
    ELSE IF r.kind = "bad_json"
    THEN [response |-> [responseBody |->
             [t |-> "dict", d |-> ("application/json" :> [body |-> NotJson])]]]
    ELSE IF r.kind = "no_body" THEN [response |-> EmptyDict]
    ELSE [errorMessage |-> "Task timed out"]

\* 'response' in response_payload and 'responseBody' in response_payload['response']
HasResponseBody(payload) ==
    /\ "response" \in DOMAIN payload
    /\ "responseBody" \in DOMAIN payload.response

\* "key in x" for a dict and for a str
In(key, x) == IF x.t = "dict" THEN key \in DOMAIN x.d ELSE key \in x.has

\* the value an invoker returns, what it showed, and the calls it made
Returns(val, notices) == [val |-> val, notices |-> notices]

\* a lambda invocation as the function sees it
Invocation(apiPath, sessionId, properties) ==
    [api |-> apiPath, sessionId |-> sessionId, properties |-> properties]

\* "if x:" for the values stored here: None, a list, a dict
Truthy(x) ==
    /\ x # NoneVal
    /\ "list" \in DOMAIN x => x.list # <<>>
    /\ DOMAIN x # {}

\* ----------------------------------------- generate_recommendations_direct
DefaultProfile ==
    [archetype |-> "Modern Professional",
     visual_style |-> <<"Contemporary", "Refined">>,
     energetic_essence |-> <<"Confident", "Sophisticated">>]

\* "if profile_data: profile_value = profile_data else: <default profile>"
ProfileValue(profile) == IF Truthy(profile) THEN profile ELSE DefaultProfile

\* the except branch: st.error(f"Error generating recommendations: {str(e)}")
RecommendationsExcept(e) ==
    Returns(NoneVal, <<Notice("error", "Error generating recommendations: ", e)>>)

\* generate_recommendations_direct after the invoke: r is what the invoke gave
generate_recommendations_direct(r) ==
    IF r.kind = "raises" THEN RecommendationsExcept("ClientError")
    ELSE
    LET payload == response_payload(r)
        tail == IF "errorMessage" \in DOMAIN payload
                THEN Returns(NoneVal, <<Notice("error", "Lambda error: ", payload.errorMessage)>>)
                ELSE Returns(NoneVal, <<>>)
    IN IF ~HasResponseBody(payload) THEN tail
       ELSE LET response_body == payload.response.responseBody
            IN IF In("recommendations", response_body)
               THEN IF response_body.t = "dict"
                    THEN Returns(response_body.d.recommendations, <<>>)
                    ELSE RecommendationsExcept("TypeError")
               ELSE IF In("application/json", response_body)
               THEN IF response_body.t # "dict" THEN RecommendationsExcept("TypeError")
                    ELSE LET text == response_body.d["application/json"].body
                         IN IF ~text.valid THEN RecommendationsExcept("JSONDecodeError")
                            ELSE LET body_content == text.doc
                                 IN IF "recommendations" \in DOMAIN body_content
                                    THEN Returns(body_content.recommendations, <<>>)
                                    ELSE IF "error" \in DOMAIN body_content
                                    THEN Returns(NoneVal,
                                           <<Notice("error", "Error generating recommendations: ",
                                                    body_content.error)>>)
                                    ELSE tail
               ELSE tail

\* the one invocation generate_recommendations_direct makes
RecommendationsCall(sid, profile) ==
    Invocation("/generateRecommendations", sid, [profile |-> ProfileValue(profile)])

\* ------------------------------------------------- generate_style_collage
\* gender_context from the profile
GenderContext(profile) ==
    IF ~Truthy(profile) THEN ""
    ELSE LET gender == IF "gender" \in DOMAIN profile THEN profile.gender ELSE "unspecified"
             age_group == IF "age_group" \in DOMAIN profile THEN profile.age_group ELSE "adult"
         IN IF gender = "male"
            THEN IF age_group = "youth" THEN "for boys, masculine youth style"
                                        ELSE "for men, masculine style"
            ELSE IF gender = "female"
            THEN IF age_group = "youth" THEN "for girls, feminine youth style"
                                        ELSE "for women, feminine style"
            ELSE "gender-neutral style"

\* the except branch: st.error(f"Error generating style collage: {str(e)}")
CollageExcept(e) ==
    Returns(NoneVal, <<Notice("error", "Error generating style collage: ", e)>>)

\* result = {}; the three "if key in body_content: result[...] = ..."
CollageResult(body_content) ==
    LET keys == {k \in {"url", "base64", "prompt_used"} :
                    (IF k = "url" THEN "collage_url"
                     ELSE IF k = "base64" THEN "collage_base64" ELSE "prompt_used")
                        \in DOMAIN body_content}
    IN [k \in keys |-> IF k = "url" THEN body_content.collage_url
                       ELSE IF k = "base64" THEN body_content.collage_base64
                       ELSE body_content.prompt_used]

\* generate_style_collage after the invoke.  "if isinstance(response_body, dict):
\* body_content = response_body" comes first, so a dict is never unwrapped; for
\* a str every key test is a substring test and every index by a key raises
\* TypeError.
generate_style_collage(r) ==
    IF r.kind = "raises" THEN CollageExcept("ClientError")
    ELSE
    LET payload == response_payload(r)
    IN IF ~HasResponseBody(payload) THEN Returns(NoneVal, <<>>)
       ELSE LET response_body == payload.response.responseBody
            IN IF response_body.t # "dict"
               THEN IF \E k \in {"application/json", "collage_url", "collage_base64",
                                 "prompt_used", "error"} : In(k, response_body)
                    THEN CollageExcept("TypeError")
                    ELSE Returns(NoneVal, <<>>)
               ELSE LET body_content == response_body.d
                        result == CollageResult(body_content)
                    IN IF DOMAIN result # {} THEN Returns(result, <<>>)
                       ELSE IF "error" \in DOMAIN body_content
                       THEN Returns(NoneVal, <<Notice("error", "Error generating collage: ",
                                                      body_content.error)>>)
                       ELSE Returns(NoneVal, <<>>)

\* the one invocation generate_style_collage makes
CollageCall(sid, category, profile, recommendations) ==
    Invocation("/generateStyleCollage", sid,
               [style_focus |-> category, color_preference |-> "personalized",
                gender_context |-> GenderContext(profile),
                profile_data |-> IF Truthy(profile) THEN JsonText(profile) ELSE JsonText(EmptyDict),
                recommendations_data |-> IF Truthy(recommendations) THEN JsonText(recommendations)
                                         ELSE JsonText(EmptyDict)])

\* ------------------------------------------------------------ main: state
SessionIds == {"uuid-1", "uuid-2"}
S3_BUCKET == "essencemirror-user-uploads"

\* the files a user may put into the uploader, and int(image_hash, 16) of each
Images == {"imgA", "imgB"}
ImageHash(img) == [hex |-> IF img = "imgA" THEN 5 ELSE 10]

\* the key upload_image_to_s3 makes up for a file
S3Key(img) == [key |-> <<"uploads", img>>]

NoRun == [op |-> "none", raised |-> FALSE, val |-> NoneVal, notices |-> <<>>]

AppInit ==
    /\ session_id \in SessionIds
    /\ uploaded_file = "none"
    /\ current_image_hash = NoneVal
    /\ analysis_complete = FALSE
    /\ profile_data = NoneVal
    /\ recommendations_generated = FALSE
    /\ recommendations_data = NoneVal
    /\ collage_data = NoneVal
    /\ collage_category = "lifestyle"
    /\ video_generated = FALSE
    /\ video_url = NoneVal
    /\ s3_key = NoneVal
    /\ NOVA_REEL_AVAILABLE \in BOOLEAN
    /\ app_calls = <<>>
    /\ app_last = NoRun

\* generate_image_specific_analysis: profiles[int(image_hash, 16) % len(profiles)]
\* with image_id and upload_timestamp added
ImageProfiles ==
    << [archetype |-> "Young Athletic Enthusiast",
        visual_style |-> <<"Sporty", "Casual", "Active">>,
        energetic_essence |-> <<"Energetic", "Playful", "Confident">>,
        age_group |-> "youth", gender |-> "unspecified", style_category |-> "athletic"],
       [archetype |-> "Creative Professional",
        visual_style |-> <<"Artistic", "Expressive", "Contemporary">>,
        energetic_essence |-> <<"Innovative", "Authentic", "Confident">>,
        age_group |-> "adult", gender |-> "unspecified", style_category |-> "creative"],
       [archetype |-> "Classic Minimalist",
        visual_style |-> <<"Clean", "Timeless", "Refined">>,
        energetic_essence |-> <<"Sophisticated", "Intentional", "Elegant">>,
        age_group |-> "adult", gender |-> "unspecified", style_category |-> "minimalist"],
       [archetype |-> "Casual Comfort Seeker",
        visual_style |-> <<"Relaxed", "Comfortable", "Practical">>,
        energetic_essence |-> <<"Easygoing", "Authentic", "Approachable">>,
        age_group |-> "adult", gender |-> "unspecified", style_category |-> "casual"] >>

generate_image_specific_analysis(image_hash) ==
    LET profile_index == image_hash.hex % Len(ImageProfiles)
        p == ImageProfiles[profile_index + 1]
    IN [archetype |-> p.archetype, visual_style |-> p.visual_style,
        energetic_essence |-> p.energetic_essence, age_group |-> p.age_group,
        gender |-> p.gender, style_category |-> p.style_category,
        image_id |-> image_hash, upload_timestamp |-> "datetime.now()"]

\* ------------------------------------------------- main: what the function sends
\* profiles the analysis function may return
GoodProfile ==
    [archetype |-> "Urban Classic", visual_style |-> <<"Tailored">>,
     energetic_essence |-> <<"Calm">>]
UnknownProfile ==
    [archetype |-> "Unknown", visual_style |-> <<>>, energetic_essence |-> <<>>]
\* the Nova Pro structure that holds the narrative
NovaOutput(text) == [output |-> [message |-> [content |-> <<[text |-> text]>>]]]
NovaNoContent == [output |-> [message |-> [content |-> <<>>]]]

AnalysisNarratives == {Text(<<"B", "O", "Y">>), NotText}

AnalysisBodies ==
    { [error |-> "No person detected"],
      [error |-> "No person detected", profile |-> GoodProfile],
      [profile |-> GoodProfile],
      [profile |-> UnknownProfile, analysis |-> NovaNoContent] }
        \cup {[profile |-> UnknownProfile, analysis |-> NovaOutput(t)] : t \in AnalysisNarratives}

AnalysisResponses ==
    {Wrapped(b, "direct") : b \in AnalysisBodies}
        \cup {Wrapped([profile |-> GoodProfile], "json_string"), NoBody, InvokeRaises}

\* the recommendations the function makes for a profile
Recs(profile) == [list |-> <<[category |-> "Wardrobe", made_for |-> profile]>>]

RecommendationBodies(profile) ==
    { [recommendations |-> Recs(profile)],
      [recommendations |-> [list |-> <<>>]],
      [error |-> "model unavailable"],
      [recommendations |-> Recs(profile), error |-> "model unavailable"],
      EmptyDict }

\* the function makes its recommendations for the profile it is sent
AnswerFor(r, profile) ==
    IF /\ r.kind = "wrapped"
       /\ "recommendations" \in DOMAIN r.body
       /\ r.body.recommendations.list # <<>>
    THEN [r EXCEPT !.body.recommendations = Recs(profile)]
    ELSE r

\* a base64 text that decodes, and one that does not
Base64(valid) == [b64 |-> "collage", valid |-> valid]

CollageBodies ==
    { [collage_url |-> "https://collage", collage_base64 |-> Base64(TRUE),
       prompt_used |-> "prompt"],
      [collage_url |-> "https://collage"],
      [collage_base64 |-> Base64(FALSE)],
      [error |-> "model unavailable"],
      [collage_url |-> "https://collage", error |-> "model unavailable"],
      EmptyDict }

\* every way an invoker's invocation may end, for a set of logical bodies
Responses(bodies) ==
    {Wrapped(b, s) : b \in bodies, s \in Shapes}
        \cup {BadJson, NoBody, LambdaError, InvokeRaises}

\* the ways the deployed function answers the page of app.py
DirectResponses(bodies) ==
    {Wrapped(b, "direct") : b \in bodies} \cup {NoBody, InvokeRaises}

\* the ways the deployed function answers the page of essence_mirror_app_enhanced.py
JsonResponses(bodies) ==
    {Wrapped(b, "json_string") : b \in bodies} \cup {BadJson, InvokeRaises}

\* ------------------------------------------------------- main: the handlers
\* One action is one run of the script that a user event starts, together with
\* the run st.rerun() starts, which only draws the page again.

\* a file is put into the uploader: "if st.session_state.current_image_hash !=
\* image_hash", at the top of the run, resets what was made from the old image
UploadFile(img) ==
    /\ uploaded_file # img
    /\ uploaded_file' = img
    /\ IF current_image_hash # ImageHash(img)
         THEN /\ current_image_hash' = ImageHash(img)
              /\ analysis_complete' = FALSE
              /\ profile_data' = NoneVal
              /\ recommendations_generated' = FALSE
              /\ recommendations_data' = NoneVal
              /\ collage_data' = NoneVal
              /\ video_generated' = FALSE
              /\ video_url' = NoneVal
              /\ app_last' = [NoRun EXCEPT !.op = "upload",
                                !.notices = <<Notice("info", "New image detected", "")>>]
         ELSE /\ UNCHANGED <<current_image_hash, analysis_complete, profile_data,
                             recommendations_generated, recommendations_data, collage_data,
                             video_generated, video_url>>
              /\ app_last' = [NoRun EXCEPT !.op = "upload"]
    /\ app_calls' = <<>>
    /\ UNCHANGED <<nonAppVars, session_id, collage_category, s3_key, NOVA_REEL_AVAILABLE>>

\* the file is taken out of the uploader: nothing under "if uploaded_file is
\* not None" runs
RemoveFile ==
    /\ uploaded_file # "none"
    /\ uploaded_file' = "none"
    /\ app_calls' = <<>>
    /\ app_last' = [NoRun EXCEPT !.op = "remove"]
    /\ UNCHANGED <<nonAppVars, session_id, current_image_hash, analysis_complete, profile_data,
                   recommendations_generated, recommendations_data, collage_data,
                   collage_category, video_generated, video_url, s3_key, NOVA_REEL_AVAILABLE>>

\* "not analysis_response or analysis_response.get('archetype') == 'Unknown'"
Unusable(p) ==
    \/ ~Truthy(p)
    \/ ("archetype" \in DOMAIN p /\ p.archetype = "Unknown")

\* the text at analysis['output']['message']['content'][0]['text'], when the
\* chain of tests that guards it holds
NarrativeOf(response_body) ==
    IF /\ "analysis" \in DOMAIN response_body
       /\ "output" \in DOMAIN response_body.analysis
       /\ "message" \in DOMAIN response_body.analysis.output
       /\ "content" \in DOMAIN response_body.analysis.output.message
       /\ Len(response_body.analysis.output.message.content) > 0
       /\ "text" \in DOMAIN response_body.analysis.output.message.content[1]
    THEN [found |-> TRUE, text |-> response_body.analysis.output.message.content[1].text]
    ELSE [found |-> FALSE]

\* the first block of the Analyze handler after its invocation returned:
\*   "return"   an error key, st.error and return
\*   "profile"  a usable profile, stored
\*   "unusable" st.error, and the run goes on to the second block
FirstAnalysis(r) ==
    LET payload == response_payload(r)
        response_body == payload.response.responseBody.d
        narrative == NarrativeOf(response_body)
        from_function == response_body.profile
        analysis_response ==
            IF ~HasResponseBody(payload) \/ payload.response.responseBody.t # "dict"
               \/ "profile" \notin DOMAIN response_body
            THEN NoneVal
            ELSE IF (Unusable(from_function)
                       \/ "visual_style" \notin DOMAIN from_function
                       \/ from_function.visual_style = <<>>)
                    /\ narrative.found
            THEN parse_analysis_text(narrative.text)
            ELSE from_function
        parse_error ==
            /\ HasResponseBody(payload)
            /\ payload.response.responseBody.t = "dict"
            /\ "profile" \in DOMAIN response_body
            /\ (Unusable(from_function)
                  \/ "visual_style" \notin DOMAIN from_function
                  \/ from_function.visual_style = <<>>)
            /\ narrative.found
            /\ ~IsStr(narrative.text)
        shown == IF parse_error
                 THEN <<Notice("error", "Error parsing analysis: ", "AttributeError")>>
                 ELSE <<>>
    IN IF HasResponseBody(payload) /\ payload.response.responseBody.t = "dict"
          /\ "error" \in DOMAIN response_body
       THEN [way |-> "return", profile |-> NoneVal,
             notices |-> <<Notice("error", "Analysis failed: ", response_body.error),
                           Notice("info", "Please try uploading the image again.", "")>>]
       ELSE IF Unusable(analysis_response)
       THEN [way |-> "unusable", profile |-> NoneVal,
             notices |-> shown \o <<Notice("error", "Could not analyze this image.", ""),
                                    Notice("info", "Make sure the image shows a person", "")>>]
       ELSE [way |-> "profile", profile |-> analysis_response,
             notices |-> shown \o <<Notice("success", "Style analysis complete!", "")>>]

\* the invocation of /analyzeImage both blocks of the handler make
AnalyzeCall(sid, key) ==
    Invocation("/analyzeImage", sid, [bucket_name |-> S3_BUCKET, object_key |-> key])

\* "Analyze My Style": upload_ok tells whether upload_image_to_s3 returned a
\* key, r is what the first invocation gave, second_raises whether the second
\* invocation, made when the first block stored nothing, raised
Analyze(upload_ok, r, second_raises) ==
    /\ uploaded_file # "none"
    /\ LET key == S3Key(uploaded_file)
           call == AnalyzeCall(session_id, key)
           uploaded == <<Notice("success", "Image uploaded successfully!", "")>>
           first == FirstAnalysis(r)
           run == [NoRun EXCEPT !.op = "analyze"]
       IN IF ~upload_ok
          THEN /\ app_calls' = <<>>
               /\ app_last' = [run EXCEPT !.notices =
                     <<Notice("error", "Error uploading image: ", "ClientError"),
                       Notice("error", "Failed to upload image. Please try again.", "")>>]
               /\ UNCHANGED <<s3_key, profile_data, analysis_complete>>
          ELSE IF r.kind = "raises"
          THEN \* the exception leaves main
               /\ app_calls' = <<call>>
               /\ app_last' = [run EXCEPT !.raised = TRUE, !.notices = uploaded]
               /\ s3_key' = key
               /\ UNCHANGED <<profile_data, analysis_complete>>
          ELSE IF first.way = "return"
          THEN /\ app_calls' = <<call>>
               /\ app_last' = [run EXCEPT !.notices = uploaded \o first.notices]
               /\ s3_key' = key
               /\ UNCHANGED <<profile_data, analysis_complete>>
          ELSE IF first.way = "profile"
          THEN /\ app_calls' = <<call>>
               /\ app_last' = [run EXCEPT !.notices = uploaded \o first.notices,
                                          !.val = first.profile]
               /\ s3_key' = key
               /\ profile_data' = first.profile
               /\ analysis_complete' = TRUE
          ELSE IF second_raises
          THEN /\ app_calls' = <<call, call>>
               /\ app_last' = [run EXCEPT !.raised = TRUE,
                                          !.notices = uploaded \o first.notices]
               /\ s3_key' = key
               /\ UNCHANGED <<profile_data, analysis_complete>>
          ELSE /\ app_calls' = <<call, call>>
               /\ app_last' = [run EXCEPT
                     !.notices = uploaded \o first.notices
                                   \o <<Notice("success", "Analysis complete!", "")>>,
                     !.val = generate_image_specific_analysis(current_image_hash)]
               /\ s3_key' = key
               /\ profile_data' = generate_image_specific_analysis(current_image_hash)
               /\ analysis_complete' = TRUE
    /\ UNCHANGED <<nonAppVars, session_id, uploaded_file, current_image_hash,
                   recommendations_generated, recommendations_data, collage_data,
                   collage_category, video_generated, video_url, NOVA_REEL_AVAILABLE>>

\* "Get My Recommendations", shown while none are stored for a stored profile
GetRecommendations(r) ==
    /\ analysis_complete
    /\ Truthy(profile_data)
    /\ ~recommendations_generated
    /\ LET out == generate_recommendations_direct(AnswerFor(r, ProfileValue(profile_data)))
           recommendations == out.val
           run == [NoRun EXCEPT !.op = "recommendations", !.val = out.val]
       IN /\ app_calls' = <<RecommendationsCall(session_id, profile_data)>>
          /\ IF Truthy(recommendations)
               THEN /\ recommendations_data' = recommendations
                    /\ recommendations_generated' = TRUE
                    /\ app_last' = [run EXCEPT !.notices = out.notices \o
                          <<Notice("success", "Your personalized recommendations are ready!", "")>>]
               ELSE /\ UNCHANGED <<recommendations_data, recommendations_generated>>
                    /\ app_last' = [run EXCEPT !.notices = out.notices \o
                          <<Notice("error", "No recommendations were generated.", "")>>]
    /\ UNCHANGED <<nonAppVars, session_id, uploaded_file, current_image_hash, analysis_complete,
                   profile_data, collage_data, collage_category, video_generated, video_url,
                   s3_key, NOVA_REEL_AVAILABLE>>

\* "Display persistent collage": base64.b64decode of a stored text that does
\* not decode raises, and the except branch sets collage_data to None
DisplayStored(collage) ==
    IF collage # NoneVal /\ "base64" \in DOMAIN collage /\ ~collage.base64.valid
    THEN [collage |-> NoneVal,
          notices |-> <<Notice("error", "Error displaying stored collage: ", "binascii.Error")>>]
    ELSE [collage |-> collage, notices |-> <<>>]

\* "Display immediately": the decode of the new result, inside the handler's try
DisplayNow(collage_result) ==
    IF "base64" \in DOMAIN collage_result /\ ~collage_result.base64.valid
    THEN <<Notice("error", "Error generating collage: ", "binascii.Error")>>
    ELSE <<>>

CollageCategories == {"fashion", "lifestyle"}

\* "Generate Style Collage", and the display of the stored collage that the
\* same run goes on to
GenerateCollage(category, r) ==
    /\ analysis_complete
    /\ LET out == generate_style_collage(r)
           collage_result == out.val
           run == [NoRun EXCEPT !.op = "collage", !.val = out.val]
           stored == IF Truthy(collage_result) THEN collage_result ELSE collage_data
           shown == IF Truthy(collage_result)
                    THEN <<Notice("success", "Your style collage is ready!", "")>>
                             \o DisplayNow(collage_result)
                    ELSE <<Notice("error", "Failed to generate collage. Please try again.", "")>>
       IN /\ app_calls' = <<CollageCall(session_id, category, profile_data, recommendations_data)>>
          /\ collage_data' = DisplayStored(stored).collage
          /\ app_last' = [run EXCEPT !.notices = out.notices \o shown
                                                    \o DisplayStored(stored).notices]
    /\ UNCHANGED <<nonAppVars, session_id, uploaded_file, current_image_hash, analysis_complete,
                   profile_data, recommendations_generated, recommendations_data,
                   collage_category, video_generated, video_url, s3_key, NOVA_REEL_AVAILABLE>>

TestProfile == [gender |-> "female", age_group |-> "adult"]
TestRecommendations ==
    [recommendations |-> <<[brand |-> "Test Brand", product |-> "Test Product"]>>]

\* "Test Collage Generation", shown when the Debug Info box is ticked
TestCollage(r) ==
    /\ analysis_complete
    /\ LET out == generate_style_collage(r)
           test_result == out.val
           run == [NoRun EXCEPT !.op = "test_collage", !.val = out.val]
           shown == IF Truthy(test_result)
                    THEN <<Notice("success", "Test collage generated successfully!", "")>>
                    ELSE <<Notice("error", "Test collage generation failed", "")>>
           failed == IF Truthy(test_result) /\ DisplayNow(test_result) # <<>>
                     THEN <<Notice("error", "Test error: ", "binascii.Error")>>
                     ELSE <<>>
       IN /\ app_calls' = <<CollageCall("test-session-ui", "fashion", TestProfile,
                                        TestRecommendations)>>
          /\ app_last' = [run EXCEPT !.notices = out.notices \o shown \o failed]
    /\ UNCHANGED <<nonAppVars, sessionVars, NOVA_REEL_AVAILABLE>>

\* "Clear Stored Collage"
ClearStoredCollage ==
    /\ analysis_complete
    /\ collage_data # NoneVal
    /\ collage_data' = NoneVal
    /\ app_calls' = <<>>
    /\ app_last' = [NoRun EXCEPT !.op = "clear_collage"]
    /\ UNCHANGED <<nonAppVars, session_id, uploaded_file, current_image_hash, analysis_complete,
                   profile_data, recommendations_generated, recommendations_data,
                   collage_category, video_generated, video_url, s3_key, NOVA_REEL_AVAILABLE>>

\* what NovaReelGenerator.generate_video_from_user_input may do
VideoOutcomes == {"completed", "failed", "none", "raises"}

\* generate_style_video: the URL of a completed result, else st.error and None
generate_style_video(outcome) ==
    IF outcome = "completed" THEN Returns([url |-> "https://style-video"], <<>>)
    ELSE IF outcome = "failed"
    THEN Returns(NoneVal, <<Notice("error", "Video generation failed: ", "Unknown error")>>)
    ELSE IF outcome = "none"
    THEN Returns(NoneVal, <<Notice("error", "Error generating style video: ", "AttributeError")>>)
    ELSE Returns(NoneVal, <<Notice("error", "Error generating style video: ", "ClientError")>>)

\* the call generate_style_video makes: user_id is the fixed "streamlit_user"
StyleVideoCall(user_prompt, duration) ==
    Invocation("generate_video_from_user_input", "streamlit_user",
               [user_input |-> user_prompt, duration_seconds |-> duration])

\* "Create Style Video": tmp_ok tells whether the file could be saved
CreateVideo(tmp_ok, outcome) ==
    /\ NOVA_REEL_AVAILABLE
    /\ analysis_complete
    /\ uploaded_file # "none"
    /\ LET out == generate_style_video(outcome)
           run == [NoRun EXCEPT !.op = "video"]
       IN IF ~tmp_ok
          THEN /\ app_calls' = <<>>
               /\ app_last' = [run EXCEPT !.notices =
                     <<Notice("error", "Error saving temporary file: ", "OSError")>>]
               /\ UNCHANGED <<video_url, video_generated>>
          ELSE /\ app_calls' = <<StyleVideoCall("Create a stylish lifestyle video", 6)>>
               /\ IF Truthy(out.val)
                    THEN /\ video_url' = out.val
                         /\ video_generated' = TRUE
                         /\ app_last' = [run EXCEPT !.val = out.val, !.notices =
                               <<Notice("success", "Your style video is ready!", "")>>]
                    ELSE /\ UNCHANGED <<video_url, video_generated>>
                         /\ app_last' = [run EXCEPT !.notices = out.notices]
    /\ UNCHANGED <<nonAppVars, session_id, uploaded_file, current_image_hash, analysis_complete,
                   profile_data, recommendations_generated, recommendations_data, collage_data,
                   collage_category, s3_key, NOVA_REEL_AVAILABLE>>

AppNext ==
    \/ \E img \in Images : UploadFile(img)
    \/ RemoveFile
    \/ \E upload_ok \in BOOLEAN, r \in AnalysisResponses, second_raises \in BOOLEAN :
          Analyze(upload_ok, r, second_raises)
    \/ \E r \in DirectResponses(RecommendationBodies(DefaultProfile)) : GetRecommendations(r)
    \/ \E category \in CollageCategories, r \in DirectResponses(CollageBodies) :
          GenerateCollage(category, r)
    \/ \E r \in DirectResponses(CollageBodies) : TestCollage(r)
    \/ ClearStoredCollage
    \/ \E tmp_ok \in BOOLEAN, outcome \in VideoOutcomes : CreateVideo(tmp_ok, outcome)

\* ------------------------------------------------------ invoke_bedrock_agent
MaxEvents == 3

\* bytes are byte tokens: "a", "b" are ASCII, "c3" "a9" is the two-byte
\* encoding of one character
AsciiBytes == {"a", "b"}

\* bytes.decode('utf-8'): the text, or ok = FALSE where decode raises
RECURSIVE Utf8Decode(_)
Utf8Decode(bytes) ==
    IF bytes = <<>> THEN [ok |-> TRUE, text |-> <<>>]
    ELSE IF Head(bytes) \in AsciiBytes
    THEN LET rest == Utf8Decode(Tail(bytes))
         IN [ok |-> rest.ok, text |-> <<Head(bytes)>> \o rest.text]
    ELSE IF Head(bytes) = "c3" /\ Len(bytes) >= 2 /\ bytes[2] = "a9"
    THEN LET rest == Utf8Decode(SubSeq(bytes, 3, Len(bytes)))
         IN [ok |-> rest.ok, text |-> <<"e-acute">> \o rest.text]
    ELSE [ok |-> FALSE, text |-> <<>>]

\* the events of response['completion']: a chunk with bytes, a chunk without,
\* an event that is no chunk, and the iterator raising instead of yielding
Chunk(bytes) == [chunk |-> [bytes |-> bytes]]
ChunkNoBytes == [chunk |-> [attribution |-> "citations"]]
TraceEvent == [trace |-> "step"]
StreamRaises == [raises |-> "EventStreamError"]

ChunkPayloads == { <<"a">>, <<"b", "c3", "a9">>, <<"c3">>, <<"a9">> }

AgentEventKinds == {Chunk(b) : b \in ChunkPayloads} \cup {ChunkNoBytes, TraceEvent, StreamRaises}

EventStreams ==
    UNION {[1..n -> AgentEventKinds] : n \in 0..MaxEvents}

\* the loop reads the events and returns what it has so far when one fails
RECURSIVE ReadCompletionKeepsPartial(_, _)
ReadCompletionKeepsPartial(events, full_response) ==
    IF events = <<>> THEN [ok |-> TRUE, text |-> full_response]
    ELSE LET event == Head(events)
         IN IF "raises" \in DOMAIN event THEN [ok |-> TRUE, text |-> full_response]
            ELSE IF "chunk" \in DOMAIN event /\ "bytes" \in DOMAIN event.chunk
            THEN LET decoded == Utf8Decode(event.chunk.bytes)
                 IN IF decoded.ok
                    THEN ReadCompletionKeepsPartial(Tail(events), full_response \o decoded.text)
                    ELSE [ok |-> TRUE, text |-> full_response]
            ELSE ReadCompletionKeepsPartial(Tail(events), full_response)

\* "for event in response['completion']: ... full_response += chunk['bytes'].decode('utf-8')";
\* ok = FALSE when the iteration or a decode raised
RECURSIVE ReadCompletion(_, _)
ReadCompletion(events, full_response) ==
    IF events = <<>> THEN [ok |-> TRUE, text |-> full_response]
    ELSE LET event == Head(events)
         IN IF "raises" \in DOMAIN event THEN [ok |-> FALSE, text |-> <<>>]
            ELSE IF "chunk" \in DOMAIN event /\ "bytes" \in DOMAIN event.chunk
            THEN LET decoded == Utf8Decode(event.chunk.bytes)
                 IN IF decoded.ok
                    THEN ReadCompletion(Tail(events), full_response \o decoded.text)
                    ELSE [ok |-> FALSE, text |-> <<>>]
            ELSE ReadCompletion(Tail(events), full_response)

\* as invoke_bedrock_agent, but a failure returns the text read so far
invoke_bedrock_agent_partial(call_raises, events) ==
    IF call_raises
    THEN Returns(NoneVal, <<Notice("error", "Error invoking agent: ", "ClientError")>>)
    ELSE Returns(Text(ReadCompletionKeepsPartial(events, <<>>).text),
                 IF ReadCompletion(events, <<>>).ok THEN <<>>
                 ELSE <<Notice("error", "Error invoking agent: ", "Exception")>>)

\* invoke_bedrock_agent: the text, or st.error and None from the except branch
invoke_bedrock_agent(call_raises, events) ==
    IF call_raises
    THEN Returns(NoneVal, <<Notice("error", "Error invoking agent: ", "ClientError")>>)
    ELSE LET read == ReadCompletion(events, <<>>)
         IN IF read.ok THEN Returns(Text(read.text), <<>>)
            ELSE Returns(NoneVal, <<Notice("error", "Error invoking agent: ", "Exception")>>)

\* the one call invoke_bedrock_agent makes
AgentCall(message, sid) == Invocation("invoke_agent", sid, [inputText |-> message])

NoAgentResult == [called |-> FALSE]

AgentInit ==
    /\ agent_call_raises \in BOOLEAN
    /\ agent_events \in EventStreams
    /\ agent_result = NoAgentResult

\* a call of invoke_bedrock_agent against a service that yields agent_events
InvokeAgent ==
    /\ ~agent_result.called
    /\ LET out == invoke_bedrock_agent(agent_call_raises, agent_events)
       IN agent_result' = [called |-> TRUE, val |-> out.val, notices |-> out.notices]
    /\ UNCHANGED <<nonAgentVars, agent_call_raises, agent_events>>


\* =========================================================================
\* The page of essence_mirror_app_enhanced.py.  It keeps the same keys in
\* st.session_state; its analysis is the agent's text, and its two invokers
\* read only the JSON text under 'application/json'.
\* =========================================================================
\* generate_recommendations_direct of essence_mirror_app_enhanced.py
generate_recommendations_direct_enhanced(r) ==
    IF r.kind = "raises" THEN RecommendationsExcept("ClientError")
    ELSE
    LET payload == response_payload(r)
    IN IF ~HasResponseBody(payload) THEN Returns(NoneVal, <<>>)
       ELSE LET response_body == payload.response.responseBody
            IN IF ~In("application/json", response_body) THEN Returns(NoneVal, <<>>)
               ELSE IF response_body.t # "dict" THEN RecommendationsExcept("TypeError")
               ELSE LET text == response_body.d["application/json"].body
                    IN IF ~text.valid THEN RecommendationsExcept("JSONDecodeError")
                       ELSE IF "recommendations" \in DOMAIN text.doc
                       THEN Returns(text.doc.recommendations, <<>>)
                       ELSE IF "error" \in DOMAIN text.doc
                       THEN Returns(NoneVal,
                              <<Notice("error", "Error generating recommendations: ",
                                       text.doc.error)>>)
                       ELSE Returns(NoneVal, <<>>)

\* generate_style_collage of essence_mirror_app_enhanced.py
generate_style_collage_enhanced(r) ==
    IF r.kind = "raises" THEN CollageExcept("ClientError")
    ELSE
    LET payload == response_payload(r)
    IN IF ~HasResponseBody(payload) THEN Returns(NoneVal, <<>>)
       ELSE LET response_body == payload.response.responseBody
            IN IF ~In("application/json", response_body) THEN Returns(NoneVal, <<>>)
               ELSE IF response_body.t # "dict" THEN CollageExcept("TypeError")
               ELSE LET text == response_body.d["application/json"].body
                    IN IF ~text.valid THEN CollageExcept("JSONDecodeError")
                       ELSE LET result == CollageResult(text.doc)
                            IN IF DOMAIN result # {} THEN Returns(result, <<>>)
                               ELSE IF "error" \in DOMAIN text.doc
                               THEN Returns(NoneVal,
                                      <<Notice("error", "Error generating collage: ",
                                               text.doc.error)>>)
                               ELSE Returns(NoneVal, <<>>)

\* a file is put into the uploader of the analysis tab: the run draws it, and
\* nothing in st.session_state is touched
EnhancedUploadFile(img) ==
    /\ uploaded_file # img
    /\ uploaded_file' = img
    /\ app_calls' = <<>>
    /\ app_last' = [NoRun EXCEPT !.op = "upload"]
    /\ UNCHANGED <<nonAppVars, session_id, current_image_hash, analysis_complete, profile_data,
                   recommendations_generated, recommendations_data, collage_data,
                   collage_category, video_generated, video_url, s3_key, NOVA_REEL_AVAILABLE>>

\* the texts the agent may answer with
AgentAnswers ==
    { <<Chunk(<<"a">>)>>, <<Chunk(<<"b", "c3", "a9">>), TraceEvent, Chunk(<<"a">>)>>,
      <<TraceEvent>>, <<Chunk(<<"a">>), StreamRaises>> }

\* "Analyze My Style": the agent's answer, when it is not empty, is the profile
EnhancedAnalyze(upload_ok, call_raises, events) ==
    /\ uploaded_file # "none"
    /\ LET key == S3Key(uploaded_file)
           out == invoke_bedrock_agent(call_raises, events)
           analysis_response == out.val
           run == [NoRun EXCEPT !.op = "analyze"]
       IN IF ~upload_ok
          THEN /\ app_calls' = <<>>
               /\ app_last' = [run EXCEPT !.notices =
                     <<Notice("error", "Error uploading image: ", "ClientError")>>]
               /\ UNCHANGED <<profile_data, analysis_complete>>
          ELSE /\ app_calls' = <<AgentCall(key, session_id)>>
               /\ IF analysis_response # NoneVal /\ analysis_response.str # <<>>
                    THEN /\ profile_data' = analysis_response
                         /\ analysis_complete' = TRUE
                         /\ app_last' = [run EXCEPT !.val = out.val, !.notices =
                               <<Notice("success", "Analysis complete!", "")>>]
                    ELSE /\ UNCHANGED <<profile_data, analysis_complete>>
                         /\ app_last' = [run EXCEPT !.notices = out.notices]
    /\ UNCHANGED <<nonAppVars, session_id, uploaded_file, current_image_hash,
                   recommendations_generated, recommendations_data, collage_data,
                   collage_category, video_generated, video_url, s3_key, NOVA_REEL_AVAILABLE>>

\* the one invocation the enhanced generate_recommendations_direct makes
EnhancedRecommendationsCall(sid) ==
    Invocation("/generateRecommendations", sid, [lifestyle_focus |-> "general"])

\* "Get My Recommendations"
EnhancedGetRecommendations(r) ==
    /\ analysis_complete
    /\ profile_data # NoneVal
    /\ ~recommendations_generated
    /\ LET out == generate_recommendations_direct_enhanced(r)
           run == [NoRun EXCEPT !.op = "recommendations", !.val = out.val]
       IN /\ app_calls' = <<EnhancedRecommendationsCall(session_id)>>
          /\ IF Truthy(out.val)
               THEN /\ recommendations_data' = out.val
                    /\ recommendations_generated' = TRUE
                    /\ app_last' = [run EXCEPT !.notices = out.notices \o
                          <<Notice("success", "Your personalized recommendations are ready!", "")>>]
               ELSE /\ UNCHANGED <<recommendations_data, recommendations_generated>>
                    /\ app_last' = [run EXCEPT !.notices = out.notices]
    /\ UNCHANGED <<nonAppVars, session_id, uploaded_file, current_image_hash, analysis_complete,
                   profile_data, collage_data, collage_category, video_generated, video_url,
                   s3_key, NOVA_REEL_AVAILABLE>>

EnhancedCategories == {"wardrobe", "lifestyle"}

\* the one invocation the enhanced generate_style_collage makes
EnhancedCollageCall(sid, category) ==
    Invocation("/generateStyleCollage", sid,
               [style_focus |-> category, color_preference |-> "personalized"])

\* "Generate ... Collage"
EnhancedGenerateCollage(category, r) ==
    /\ analysis_complete
    /\ LET out == generate_style_collage_enhanced(r)
           run == [NoRun EXCEPT !.op = "collage", !.val = out.val]
       IN /\ app_calls' = <<EnhancedCollageCall(session_id, category)>>
          /\ IF Truthy(out.val)
               THEN /\ collage_data' = out.val
                    /\ collage_category' = category
                    /\ app_last' = [run EXCEPT !.notices = out.notices \o
                          <<Notice("success", "Your collage is ready!", "")>>]
               ELSE /\ UNCHANGED <<collage_data, collage_category>>
                    /\ app_last' = [run EXCEPT !.notices = out.notices]
    /\ UNCHANGED <<nonAppVars, session_id, uploaded_file, current_image_hash, analysis_complete,
                   profile_data, recommendations_generated, recommendations_data,
                   video_generated, video_url, s3_key, NOVA_REEL_AVAILABLE>>

\* "Change Focus": del st.session_state.collage_data, and the run that follows
\* sets the missing key to None
EnhancedChangeFocus ==
    /\ analysis_complete
    /\ Truthy(collage_data)
    /\ collage_data' = NoneVal
    /\ app_calls' = <<>>
    /\ app_last' = [NoRun EXCEPT !.op = "change_focus"]
    /\ UNCHANGED <<nonAppVars, session_id, uploaded_file, current_image_hash, analysis_complete,
                   profile_data, recommendations_generated, recommendations_data,
                   collage_category, video_generated, video_url, s3_key, NOVA_REEL_AVAILABLE>>

EnhancedNext ==
    \/ \E img \in Images : EnhancedUploadFile(img)
    \/ \E upload_ok \in BOOLEAN, call_raises \in BOOLEAN, events \in AgentAnswers :
          EnhancedAnalyze(upload_ok, call_raises, events)
    \/ \E r \in JsonResponses(RecommendationBodies(DefaultProfile)) : EnhancedGetRecommendations(r)
    \/ \E category \in EnhancedCategories, r \in JsonResponses(CollageBodies) :
          EnhancedGenerateCollage(category, r)
    \/ EnhancedChangeFocus

\* ----------------------------------------------- the invokers on their own
\* the four functions that invoke the action-group lambda and read its answer
Invokers == {"recommendations", "collage", "recommendations_enhanced", "collage_enhanced"}

InvokerBodies(invoker) ==
    IF invoker \in {"recommendations", "recommendations_enhanced"}
    THEN RecommendationBodies(GoodProfile)
    ELSE CollageBodies

InvokerInputs ==
    UNION {{[invoker |-> i, session_id |-> sid, r |-> r] :
               sid \in SessionIds, r \in Responses(InvokerBodies(i))} : i \in Invokers}

\* what the named invoker returns for what its invocation gave
InvokerOutcome(invoker, r) ==
    IF invoker = "recommendations" THEN generate_recommendations_direct(r)
    ELSE IF invoker = "collage" THEN generate_style_collage(r)
    ELSE IF invoker = "recommendations_enhanced" THEN generate_recommendations_direct_enhanced(r)
    ELSE generate_style_collage_enhanced(r)

\* the invocation the named invoker makes
InvokerCall(invoker, sid) ==
    IF invoker = "recommendations" THEN RecommendationsCall(sid, GoodProfile)
    ELSE IF invoker = "collage" THEN CollageCall(sid, "fashion", GoodProfile, NoneVal)
    ELSE IF invoker = "recommendations_enhanced" THEN EnhancedRecommendationsCall(sid)
    ELSE EnhancedCollageCall(sid, "wardrobe")

NoInvokerInput == [invoker |-> "none"]
NoInvokerResult == [called |-> FALSE]

InvokerInit ==
    /\ invoker_input \in InvokerInputs
    /\ invoker_result = NoInvokerResult

\* a call of the invoker invoker_input names
Invoke ==
    /\ ~invoker_result.called
    /\ LET out == InvokerOutcome(invoker_input.invoker, invoker_input.r)
       IN invoker_result' = [called |-> TRUE, val |-> out.val, notices |-> out.notices,
                             calls |-> <<InvokerCall(invoker_input.invoker,
                                                     invoker_input.session_id)>>]
    /\ UNCHANGED <<nonInvokerVars, invoker_input>>

\* ------------------------------------------------------ upload_image_to_s3
MaxUploads == 3

\* the files the uploader lets through: st.file_uploader(type=['png', 'jpg',
\* 'jpeg']) looks at the name only, so the bytes may or may not be an image
Extensions == {"png", "jpg", "jpeg"}
UploadedFiles == [extension : Extensions, decodes : BOOLEAN]

\* uploaded_file.type, which the browser derives from the name
ContentType(file) == IF file.extension = "png" THEN "image/png" ELSE "image/jpeg"

\* f"uploads/streamlit_{timestamp}_{uuid.uuid4().hex[:8]}.{file_extension}":
\* a key no earlier call made
NewKey(n, file) == [key |-> <<"uploads", n, file.extension>>]

\* upload_image_to_s3: the key, or st.error and None when upload_fileobj raises
upload_image_to_s3(file, n, put_raises) ==
    IF put_raises
    THEN Returns(NoneVal, <<Notice("error", "Error uploading image: ", "ClientError")>>)
    ELSE Returns(NewKey(n, file), <<>>)

NoUpload == [called |-> FALSE]

UploadInit ==
    /\ bucket = {}
    /\ upload_count = 0
    /\ upload_last = NoUpload

\* a call of upload_image_to_s3(uploaded_file); upload_fileobj stores the
\* object unless it raises
Upload(file, put_raises) ==
    /\ upload_count < MaxUploads
    /\ LET out == upload_image_to_s3(file, upload_count + 1, put_raises)
       IN /\ bucket' = IF put_raises THEN bucket
                       ELSE bucket \cup {[key |-> NewKey(upload_count + 1, file),
                                           ContentType |-> ContentType(file),
                                           decodes |-> file.decodes]}
          /\ upload_last' = [called |-> TRUE, file |-> file, val |-> out.val,
                             notices |-> out.notices]
    /\ upload_count' = upload_count + 1
    /\ UNCHANGED nonUploadVars

UploadNext == \E file \in UploadedFiles, put_raises \in BOOLEAN : Upload(file, put_raises)

\* =========================================================================
\* Specifications
\* =========================================================================
\* the video tab at rest, for the voice specification
VideoIdle == VideoInit

\* the voice session not yet constructed into anything, for the video specification
VoiceIdle == VoiceInit /\ NOVA_SONIC_AVAILABLE /\ credentials /\ loop_mode = "persistent"

\* the page of app.py before anything was uploaded
AppIdle == AppInit /\ session_id = "uuid-1" /\ NOVA_REEL_AVAILABLE

\* no narrative given to the parser
ParseIdle == analysis_text = NotText /\ parsed_profile = NoParse

\* nothing uploaded
UploadIdle == UploadInit

\* the voice tab before a session was started, nothing handed to a stream
ChatIdle ==
    /\ nova_sonic_session = FALSE
    /\ nova_sonic_active = FALSE
    /\ conversation_history = <<>>
    /\ handed = <<>>

\* no invoker called
InvokerIdle == invoker_input = NoInvokerInput /\ invoker_result = NoInvokerResult

\* no agent call under way
AgentIdle == agent_call_raises = FALSE /\ agent_events = <<>> /\ agent_result = NoAgentResult

Init == VoiceInit /\ VideoIdle /\ AppIdle /\ ParseIdle /\ AgentIdle /\ InvokerIdle /\ UploadIdle /\ ChatIdle

Spec == Init /\ [][VoiceNext]_vars

InitVideo == VideoInit /\ VoiceIdle /\ AppIdle /\ ParseIdle /\ AgentIdle /\ InvokerIdle /\ UploadIdle /\ ChatIdle

VideoSpec == InitVideo /\ [][VideoNext]_vars

\* the job tracker called directly: submissions, the service, and polls of the
\* held record
PollNext ==
    \/ \E job_id \in JobIds : GenerateVideo(job_id)
    \/ \E raises \in BOOLEAN : Poll(raises)
    \/ \E k \in 1..MaxJobs, status \in RemoteStatuses, msg \in FailureMessages :
          RemoteFinish(k, status, msg)

InitPoll == VoiceIdle /\ VideoInit /\ AppIdle /\ ParseIdle /\ AgentIdle /\ InvokerIdle /\ UploadIdle /\ ChatIdle

PollSpec == InitPoll /\ [][PollNext]_vars

\* the page of app.py
InitApp == AppIdle /\ VoiceIdle /\ VideoIdle /\ ParseIdle /\ AgentIdle /\ InvokerIdle /\ UploadIdle /\ ChatIdle

AppSpec == InitApp /\ [][AppNext]_vars

\* the page of essence_mirror_app_enhanced.py
InitEnhanced == AppInit /\ VoiceIdle /\ VideoIdle /\ ParseIdle /\ AgentIdle /\ InvokerIdle /\ UploadIdle /\ ChatIdle

EnhancedSpec == InitEnhanced /\ [][EnhancedNext]_vars

\* parse_analysis_text called on each narrative
InitParse == ParseInit /\ VoiceIdle /\ VideoIdle /\ AppIdle /\ AgentIdle /\ InvokerIdle /\ UploadIdle /\ ChatIdle

ParseSpec == InitParse /\ [][Parse]_vars

\* parse_analysis_text called repeatedly while the page's state changes
ReparseNext ==
    \/ Parse
    \/ ParseAgain
    \/ \E img \in Images : UploadFile(img)
    \/ RemoveFile

InitReparse == ParseInit /\ AppIdle /\ VoiceIdle /\ VideoIdle /\ AgentIdle /\ InvokerIdle /\ UploadIdle /\ ChatIdle

ReparseSpec == InitReparse /\ [][ReparseNext]_vars

\* upload_image_to_s3 called on the files the uploader lets through
InitUpload == UploadInit /\ VoiceIdle /\ VideoIdle /\ AppIdle /\ ParseIdle /\ AgentIdle /\ InvokerIdle /\ ChatIdle

UploadSpec == InitUpload /\ [][UploadNext]_vars

\* invoke_bedrock_agent called against each event stream
InitAgent == AgentInit /\ VoiceIdle /\ VideoIdle /\ AppIdle /\ ParseIdle /\ InvokerIdle /\ UploadIdle /\ ChatIdle

AgentSpec == InitAgent /\ [][InvokeAgent]_vars

\* one invoker called on each response
InitInvoker == InvokerInit /\ VoiceIdle /\ VideoIdle /\ AppIdle /\ ParseIdle /\ AgentIdle /\ UploadIdle /\ ChatIdle

InvokerSpec == InitInvoker /\ [][Invoke]_vars

\* =========================================================================
\* end_session running while another flow of the same event loop is inside
\* send_text_message or send_audio_chunk.  Each action is one stretch of a
\* coroutine between two awaits; "handed" keeps the events in the order
\* input_stream.send accepted them.

\* the flow that sends and the flow that ends the session
Senders == {"c1"}
Enders == {"c2"}

\* send_event: input_stream.send takes the event, or raises and nothing is handed
Hand(log, ev, role) == IF SendOK THEN Append(log, [ev |-> ev, role |-> role]) ELSE log

\* send_text_message: contentStart, textInput, contentEnd, each behind an await,
\* with no test of is_active
send_text_message(t) ==
    /\ \/ CanCall(t)
       \/ pc[t] \in {"text_textInput", "text_contentEnd"}
    /\ handed' = Hand(handed, CASE pc[t] = "idle" -> "contentStart"
                                [] pc[t] = "text_textInput" -> "textInput"
                                [] OTHER -> "contentEnd", "USER")
    /\ pc' = [pc EXCEPT ![t] = CASE pc[t] = "idle" -> "text_textInput"
                                 [] pc[t] = "text_textInput" -> "text_contentEnd"
                                 [] OTHER -> "idle"]
    /\ loc' = [loc EXCEPT ![t] = IF pc[t] = "idle" THEN NewCall("send_text")
                                 ELSE IF pc[t] = "text_contentEnd" THEN [@ EXCEPT !.val = "True"]
                                 ELSE @]
    /\ ncalls' = IF pc[t] = "idle" THEN ncalls + 1 ELSE ncalls
    /\ UNCHANGED <<pageVars, envVars, objVars, queueVars, netVars, closedByEnd,
                   nova_sonic_session, nova_sonic_active, conversation_history>>

\* send_audio_chunk: "if not self.is_active: return False"; without
\* _audio_started the contentStart, then (behind its await) the flag and the
\* audioInput; with it the audioInput at once
send_audio_chunk(t) ==
    /\ \/ CanCall(t)
       \/ pc[t] = "audio_audioInput"
    /\ IF pc[t] = "idle" /\ ~is_active
         THEN /\ loc' = [loc EXCEPT ![t] = [NewCall("send_audio") EXCEPT !.val = "False"]]
              /\ UNCHANGED <<pc, handed, audio_started>>
         ELSE IF pc[t] = "idle" /\ ~audio_started
         THEN /\ handed' = Hand(handed, "contentStart", "AUDIO")
              /\ pc' = [pc EXCEPT ![t] = "audio_audioInput"]
              /\ loc' = [loc EXCEPT ![t] = [NewCall("send_audio") EXCEPT !.wasActive = TRUE]]
              /\ UNCHANGED audio_started
         ELSE /\ handed' = Hand(handed, "audioInput", "AUDIO")
              /\ audio_started' = TRUE
              /\ pc' = [pc EXCEPT ![t] = "idle"]
              /\ loc' = [loc EXCEPT ![t] = IF pc[t] = "idle"
                                             THEN [NewCall("send_audio") EXCEPT !.wasActive = TRUE,
                                                       !.audioOpen = TRUE, !.val = "True"]
                                             ELSE [@ EXCEPT !.val = "True"]]
    /\ ncalls' = IF pc[t] = "idle" THEN ncalls + 1 ELSE ncalls
    /\ UNCHANGED <<pageVars, envVars, client, stream, is_active, queueVars, netVars, closedByEnd,
                   nova_sonic_session, nova_sonic_active, conversation_history>>

\* end_session: "if not self.is_active: return"; is_active = False;
\* end_audio_input (contentEnd and delattr when _audio_started is set);
\* promptEnd; sessionEnd; close of the input stream
end_session(t) ==
    /\ \/ CanCall(t)
       \/ pc[t] \in {"end_delattr", "end_sessionEnd", "end_close"}
    /\ CASE pc[t] = "idle" /\ ~is_active ->
                /\ loc' = [loc EXCEPT ![t] = [NewCall("end_session") EXCEPT !.val = "None"]]
                /\ UNCHANGED <<pc, handed, is_active, audio_started, streams, closedByEnd>>
         [] pc[t] = "idle" /\ is_active ->
                /\ is_active' = FALSE
                /\ handed' = Hand(handed, EndFirstSteps(audio_started)[2],
                                  IF audio_started THEN "AUDIO" ELSE "-")
                /\ pc' = [pc EXCEPT ![t] = IF audio_started THEN "end_delattr" ELSE "end_sessionEnd"]
                /\ loc' = [loc EXCEPT ![t] = [NewCall("end_session") EXCEPT !.wasActive = TRUE,
                                                  !.audioOpen = audio_started]]
                /\ UNCHANGED <<audio_started, streams, closedByEnd>>
         [] pc[t] = "end_delattr" ->
                /\ audio_started' = FALSE
                /\ handed' = Hand(handed, "promptEnd", "-")
                /\ pc' = [pc EXCEPT ![t] = "end_sessionEnd"]
                /\ UNCHANGED <<loc, is_active, streams, closedByEnd>>
         [] pc[t] = "end_sessionEnd" ->
                /\ handed' = Hand(handed, "sessionEnd", "-")
                /\ pc' = [pc EXCEPT ![t] = "end_close"]
                /\ UNCHANGED <<loc, is_active, audio_started, streams, closedByEnd>>
         [] OTHER ->
                /\ streams' = IF SendOK THEN [streams EXCEPT ![stream].inClosed = TRUE] ELSE streams
                /\ closedByEnd' = TRUE
                /\ pc' = [pc EXCEPT ![t] = "idle"]
                /\ loc' = [loc EXCEPT ![t].val = "None"]
                /\ UNCHANGED <<handed, is_active, audio_started>>
    /\ ncalls' = IF pc[t] = "idle" THEN ncalls + 1 ELSE ncalls
    /\ UNCHANGED <<pageVars, envVars, client, stream, queueVars, tasks, ndelivered,
                   nova_sonic_session, nova_sonic_active, conversation_history>>

\* a session that start_style_session opened on a persistent event loop, with
\* or without an audio block opened by an earlier send_audio_chunk
OpenSession ==
    /\ NOVA_SONIC_AVAILABLE = TRUE
    /\ credentials = TRUE
    /\ loop_mode = "persistent"
    /\ client = TRUE
    /\ stream = 1
    /\ is_active = TRUE
    /\ audio_started \in BOOLEAN
    /\ response_queue = <<>>
    /\ audio_queue = <<>>
    /\ streams = [s \in Sids |-> IF s = 1 THEN [NoStream EXCEPT !.est = TRUE] ELSE NoStream]
    /\ tasks = [k \in Sids |-> IF k = 1 THEN [state |-> "waiting", on |-> 1] ELSE NoTask]
    /\ pc = [t \in Callers |-> "idle"]
    /\ loc = [t \in Callers |-> NoCall]
    /\ ncalls = 0
    /\ ndelivered = 0
    /\ arrivedText = <<>>
    /\ arrivedAudio = <<>>
    /\ drainedText = <<>>
    /\ drainedAudio = <<>>
    /\ closedByEnd = FALSE
    /\ nova_sonic_session = FALSE
    /\ nova_sonic_active = FALSE
    /\ conversation_history = <<>>
    /\ handed = IF audio_started
                  THEN <<[ev |-> "contentStart", role |-> "AUDIO"],
                         [ev |-> "audioInput", role |-> "AUDIO"]>>
                  ELSE <<>>

ConcurrentNext ==
    \/ \E t \in Senders :
          \/ send_text_message(t)
          \/ send_audio_chunk(t)
    \/ \E t \in Enders : end_session(t)

InitConcurrent ==
    OpenSession /\ VideoIdle /\ AppIdle /\ ParseIdle /\ AgentIdle /\ InvokerIdle /\ UploadIdle

ConcurrentSpec == InitConcurrent /\ [][ConcurrentNext]_vars

\* =========================================================================
\* The voice tab (nova_sonic_component.py).  One action is one script run
\* started by a button; each coroutine of the generator runs to its end on an
\* event loop of its own inside the run.

MaxTurns == 3

\* what the user can type into the text input
Messages == {"m1"}

\* the output events get_response and get_audio_response wait for
AnswerKinds == {"textOutput", "audioOutput"}

\* text messages handed to a stream so far
TurnsSent == Cardinality({i \in DOMAIN handed : handed[i] = [ev |-> "textInput", role |-> "USER"]})

\* the events a successful start_style_session hands to its new stream
StartHanded ==
    << [ev |-> "sessionStart", role |-> "-"], [ev |-> "promptStart", role |-> "-"],
       [ev |-> "contentStart", role |-> "SYSTEM"], [ev |-> "textInput", role |-> "SYSTEM"],
       [ev |-> "contentEnd", role |-> "SYSTEM"] >>

\* "Start Voice Session" (disabled while active): a new generator, then
\* start_style_session on a new event loop that is closed when start returns,
\* so the _process_responses task created last never resumes.  On success the
\* generator is stored and the tab is active; else st.error and nothing stored.
start_nova_sonic_session(voice_id, success) ==
    /\ ~nova_sonic_active
    /\ NextSid \in Sids
    /\ IF success
         THEN /\ client' = TRUE
              /\ stream' = NextSid
              /\ is_active' = TRUE
              /\ audio_started' = FALSE
              /\ response_queue' = <<>>
              /\ audio_queue' = <<>>
              /\ streams' = [streams EXCEPT ![NextSid].est = TRUE]
              /\ tasks' = [tasks EXCEPT ![NextTask] = [state |-> "stranded", on |-> NextSid]]
              /\ handed' = handed \o StartHanded
              /\ nova_sonic_session' = TRUE
              /\ nova_sonic_active' = TRUE
         ELSE UNCHANGED <<objVars, response_queue, audio_queue, streams, tasks, handed,
                          nova_sonic_session, nova_sonic_active>>
    /\ UNCHANGED <<pageVars, envVars, arrivedText, arrivedAudio, drainedText, drainedAudio,
                   ndelivered, pc, loc, ncalls, closedByEnd, conversation_history>>

\* "End Session" (disabled unless active): end_session on a new event loop
\* (promptEnd, sessionEnd, close; no audio block is ever opened by the tab),
\* then the generator is dropped and the tab is inactive
end_nova_sonic_session ==
    /\ nova_sonic_active
    /\ IF nova_sonic_session
         THEN /\ is_active' = FALSE
              /\ handed' = Hand(Hand(handed, "promptEnd", "-"), "sessionEnd", "-")
              /\ streams' = IF SendOK THEN [streams EXCEPT ![stream].inClosed = TRUE] ELSE streams
              /\ nova_sonic_session' = FALSE
              /\ nova_sonic_active' = FALSE
         ELSE UNCHANGED <<is_active, handed, streams, nova_sonic_session, nova_sonic_active>>
    /\ UNCHANGED <<pageVars, envVars, client, stream, audio_started, queueVars, tasks, ndelivered,
                   pc, loc, ncalls, closedByEnd, conversation_history>>

\* "Reset Conversation"
ResetConversation ==
    /\ conversation_history' = <<>>
    /\ UNCHANGED <<pageVars, voiceVars, nova_sonic_session, nova_sonic_active, handed>>

\* a send that records an assistant turn whether or not a text response came
HistoryAfterSendAlways(history, message, now, text_response, audio_response) ==
    history \o << [role |-> "user", content |-> message, timestamp |-> now],
                  [role |-> "assistant", content |-> text_response.content,
                   timestamp |-> text_response.content[2],
                   audio_file |-> audio_response # NoItem] >>

\* the history after send_text_to_nova_sonic: the user turn, appended before the
\* send, and the assistant turn "if text_response", with the audio file "if
\* audio_response"; NoItem stands for None
HistoryAfterSend(history, message, now, text_response, audio_response) ==
    history \o << [role |-> "user", content |-> message, timestamp |-> now] >>
            \o IF text_response # NoItem
                 THEN << [role |-> "assistant", content |-> text_response.content,
                          timestamp |-> text_response.content[2],
                          audio_file |-> audio_response # NoItem] >>
                 ELSE << >>

\* "Send Text Message" (disabled unless active and a text was typed):
\* send_text_message hands its three events and returns True, then
\* get_response and get_audio_response each return the head of their queue or
\* None after the timeout
send_text_to_nova_sonic(message) ==
    /\ nova_sonic_active
    /\ nova_sonic_session
    /\ TurnsSent < MaxTurns
    /\ LET text_response == IF response_queue # <<>> THEN QueueGet(response_queue) ELSE NoItem
           audio_response == IF audio_queue # <<>> THEN QueueGet(audio_queue) ELSE NoItem
       IN /\ conversation_history' = HistoryAfterSend(conversation_history, message, ndelivered,
                                                      text_response, audio_response)
          /\ response_queue' = IF response_queue # <<>> THEN Tail(response_queue) ELSE response_queue
          /\ audio_queue' = IF audio_queue # <<>> THEN Tail(audio_queue) ELSE audio_queue
          /\ drainedText' = IF response_queue # <<>> THEN Append(drainedText, text_response)
                            ELSE drainedText
          /\ drainedAudio' = IF audio_queue # <<>> THEN Append(drainedAudio, audio_response)
                             ELSE drainedAudio
    /\ handed' = Hand(Hand(Hand(handed, "contentStart", "USER"), "textInput", "USER"),
                      "contentEnd", "USER")
    /\ UNCHANGED <<pageVars, envVars, objVars, arrivedText, arrivedAudio, netVars, pc, loc, ncalls,
                   closedByEnd, nova_sonic_session, nova_sonic_active>>

ChatNext ==
    \/ \E voice_id \in voice_options, success \in BOOLEAN : start_nova_sonic_session(voice_id, success)
    \/ end_nova_sonic_session
    \/ ResetConversation
    \/ \E message \in Messages : send_text_to_nova_sonic(message)
    \/ \E s \in Sids, kind \in AnswerKinds : Deliver(s, kind)

\* the tab before a session was started; its calls run on one loop per call
InitChat ==
    /\ VoiceInit /\ NOVA_SONIC_AVAILABLE /\ credentials /\ loop_mode = "per_call"
    /\ ChatIdle /\ VideoIdle /\ AppIdle /\ ParseIdle /\ AgentIdle /\ InvokerIdle /\ UploadIdle

ChatSpec == InitChat /\ [][ChatNext]_vars

\* =========================================================================
\* Properties of the voice session
\* =========================================================================
Names(sent) == [i \in 1..Len(sent) |-> sent[i].ev]
IsPrefix(a, b) == Len(a) <= Len(b) /\ a = SubSeq(b, 1, Len(a))
Returned(t, op) == pc[t] = "idle" /\ loc[t].op = op

\* C1: a send_text_message, get_response or get_audio_response made after
\* end_session completed (and before any new start) fails: send_text_message
\* does not return True and no event of it is accepted by a stream, and the two
\* drain calls return no queued item.
C1_CallsFailAfterEnd ==
    \A t \in Callers :
        (pc[t] = "idle" /\ loc[t].afterEnd) =>
            /\ loc[t].op = "send_text" =>
                  /\ loc[t].val # "True"
                  /\ \A i \in 1..Len(loc[t].sent) : ~loc[t].sent[i].ok
            /\ loc[t].op \in {"get_response", "get_audio_response"} => loc[t].val # "item"

\* the session is OPEN: a start has returned True and no end_session began since
SessionOpen == is_active /\ \A t \in Callers : pc[t] = "idle" \/ loc[t].op # "start"

\* C2: while the session is OPEN and neither the transport nor a payload has
\* made the loop raise, a _process_responses task is waiting for the output of
\* the session's stream, so that the events delivered are put on the queues;
\* also when every call runs in its own temporary event loop.
C2_ReceiveLoopRunsWhileOpen ==
    (/\ SessionOpen
     /\ streams[stream].ok
     /\ \A k \in Sids : tasks[k].state \notin {"transport_error", "decode_error"})
        => \E k \in Sids : tasks[k].state = "waiting" /\ tasks[k].on = stream

\* C3: once a transport error has ended the receive loop, every later
\* send_text_message, send_audio_chunk, get_response and get_audio_response
\* fails, and a later end_session still issues promptEnd, sessionEnd and the
\* close of the stream.
C3_CallsFailAfterLoopError ==
    \A t \in Callers :
        (pc[t] = "idle" /\ loc[t].afterErr) =>
            /\ loc[t].op \in {"send_text", "send_audio"} => loc[t].val # "True"
            /\ loc[t].op \in {"get_response", "get_audio_response"} => loc[t].val # "item"
            /\ (loc[t].op = "end_session" /\ loc[t].wasActive) =>
                  \E i, j, l \in 1..Len(loc[t].sent) :
                      /\ i < j /\ j < l
                      /\ loc[t].sent[i].ev = "promptEnd"
                      /\ loc[t].sent[j].ev = "sessionEnd"
                      /\ loc[t].sent[l].ev = "close"

StartEvents == <<"sessionStart", "promptStart", "contentStart", "textInput", "contentEnd">>

\* C4: a start_style_session that returned True has sent sessionStart,
\* promptStart and the SYSTEM content block (contentStart, textInput,
\* contentEnd) in this order, and the stream accepted each of them.
C4_StartSuccessMeansAllSent ==
    \A t \in Callers :
        (Returned(t, "start") /\ loc[t].val = "True") =>
            /\ Names(loc[t].sent) = StartEvents
            /\ \A i \in 1..Len(loc[t].sent) : loc[t].sent[i].ok
            /\ \A i \in 3..5 : loc[t].sent[i].role = "SYSTEM"

\* what an end_session that found the session active does, in order
EndEvents(audioOpen) ==
    <<"is_active=False">> \o (IF audioOpen THEN <<"contentEnd">> ELSE <<>>)
        \o <<"promptEnd", "sessionEnd", "close">>

EndOrderInv ==
    \A t \in Callers :
        loc[t].op = "end_session" =>
            /\ loc[t].wasActive =>
                  /\ IsPrefix(Names(loc[t].sent), EndEvents(loc[t].audioOpen))
                  /\ pc[t] = "idle" => Names(loc[t].sent) = EndEvents(loc[t].audioOpen)
                  /\ \A i \in 1..Len(loc[t].sent) :
                        loc[t].sent[i].ev = "contentEnd" => loc[t].sent[i].role = "AUDIO"
            /\ ~loc[t].wasActive => pc[t] = "idle" /\ loc[t].sent = <<>>

EndOrderStep ==
    \A t \in Callers :
        \* the call of end_session
        /\ (pc[t] = "idle" /\ ncalls' = ncalls + 1 /\ loc'[t].op = "end_session") =>
              /\ loc'[t].wasActive = is_active
              /\ loc'[t].audioOpen = (is_active /\ audio_started)
              /\ is_active => ~is_active'
              /\ ~is_active => UNCHANGED <<objVars, queueVars, netVars>>
        \* the close of the input stream comes last, after sessionEnd
        /\ (\E s \in Sids : streams'[s].inClosed # streams[s].inClosed) =>
              \E u \in Callers :
                  /\ loc[u].op = "end_session"
                  /\ pc[u] = "end_close"
                  /\ loc[u].sent[Len(loc[u].sent)].ev = "sessionEnd"
                  /\ pc'[u] = "idle"

\* C5: end_session on an active session first sets is_active to False, then
\* sends contentEnd for the audio block exactly when one is open, then
\* promptEnd, then sessionEnd, and closes the input stream last; on a session
\* that is not active it sends nothing and changes nothing.
C5_EndSessionOrder == []EndOrderInv /\ [][EndOrderStep]_vars

\* an end_session with an open audio block has run to its end on a healthy stream
C5_Witness ==
    \E t \in Callers :
        /\ Returned(t, "end_session")
        /\ loc[t].wasActive
        /\ loc[t].audioOpen
        /\ Len(loc[t].sent) = 5
        /\ \A i \in 1..5 : loc[t].sent[i].ok

\* C6: one session object never holds more than one live duplex stream nor
\* more than one receive loop waiting for output (start is taken only when the
\* session is CLOSED).
C6_OneStreamOneLoop ==
    /\ Cardinality({s \in Sids : streams[s].est /\ ~streams[s].inClosed /\ streams[s].ok}) <= 1
    /\ Cardinality({k \in Sids : tasks[k].state = "waiting"}) <= 1

ItemId(item) == item.content[2]
Increasing(q) ==
    \A i, j \in 1..Len(q) : (i < j /\ q[i].sid = q[j].sid) => ItemId(q[i]) < ItemId(q[j])
Distinct(q) == \A i, j \in 1..Len(q) : i # j => q[i] # q[j]

\* C7: the items get_response returned, followed by those still in the text
\* queue, are exactly the textOutput items in the order the receive loop took
\* them from the transport, none missing and none twice, and in the order the
\* service emitted them on each stream; the same for the audio queue.
C7_QueuesAreFifo ==
    /\ drainedText \o response_queue = arrivedText
    /\ drainedAudio \o audio_queue = arrivedAudio
    /\ Increasing(arrivedText) /\ Distinct(arrivedText)
    /\ Increasing(arrivedAudio) /\ Distinct(arrivedAudio)
    /\ \A i \in 1..Len(arrivedText) : arrivedText[i].type = "text"
    /\ \A i \in 1..Len(arrivedAudio) : arrivedAudio[i].type = "audio"

\* two text items arrived and both were drained
C7_Witness == Len(drainedText) = 2 /\ response_queue = <<>>

\* C8: the voiceId of every promptStart is a member of the fixed voice set: the
\* requested voice when that is a member, else Joanna; and a start that got its
\* stream returns True whatever voice was asked for.
C8_VoiceIsValid ==
    \A t \in Callers :
        loc[t].op = "start" =>
            /\ \A i \in 1..Len(loc[t].sent) :
                  loc[t].sent[i].ev = "promptStart" =>
                      /\ loc[t].sent[i].voice \in voice_options
                      /\ loc[t].voice \in voice_options => loc[t].sent[i].voice = loc[t].voice
                      /\ loc[t].voice \notin voice_options => loc[t].sent[i].voice = "Joanna"
            /\ (pc[t] = "idle" /\ loc[t].estab) => loc[t].val = "True"

\* a start asked for an unknown voice, sent Joanna and returned True
C8_Witness ==
    \E t \in Callers :
        /\ Returned(t, "start")
        /\ loc[t].voice = "Robot"
        /\ loc[t].val = "True"
        /\ loc[t].sent[2].ev = "promptStart"
        /\ loc[t].sent[2].voice = "Joanna"

\* =========================================================================
\* Properties of the video job tracker
\* =========================================================================
\* C9: a poll whose get_async_invoke raised leaves the job with the local
\* status ERROR, and the tab no longer marks the job as in progress.
C9_QueryFailureYieldsError ==
    (npolls > 0 /\ lastPoll.raised) =>
        /\ lastPoll.result.status = "ERROR"
        /\ ~lastPoll.in_progress

\* the part of a job id after its last '/': the suffix without '/' that is the
\* whole id or is preceded by '/'
LastSegment(job_id) ==
    LET n == Len(job_id)
        k == CHOOSE k \in 0..n :
                 /\ \A i \in (n - k + 1)..n : job_id[i] # "/"
                 /\ (k = n \/ job_id[n - k] = "/")
    IN SubSeq(job_id, n - k + 1, n)

\* C10: every poll makes one remote status query; remote Completed gives
\* VIDEO_GENERATED with the URL <s3Uri>/<last segment of the job id>/output.mp4,
\* remote Failed gives VIDEO_GENERATION_FAILED with the remote failure message,
\* any other remote status gives VIDEO_GENERATION_IN_PROGRESS.
C10_PollMapsRemoteStatus ==
    /\ nqueries = npolls
    /\ (npolls > 0 /\ ~lastPoll.raised) =>
          /\ lastPoll.status = "Completed" =>
                /\ lastPoll.result.status = "VIDEO_GENERATED"
                /\ lastPoll.result.videoUrl =
                      lastPoll.s3Uri \o <<"/">> \o LastSegment(lastPoll.job_id)
                                     \o <<"/", "output.mp4">>
          /\ lastPoll.status = "Failed" =>
                /\ lastPoll.result.status = "VIDEO_GENERATION_FAILED"
                /\ lastPoll.failureMessage # "absent" =>
                      lastPoll.result.errorMessage = lastPoll.failureMessage
          /\ lastPoll.status \notin {"Completed", "Failed"} =>
                lastPoll.result.status = "VIDEO_GENERATION_IN_PROGRESS"

\* a poll met a completed job whose id has two '/'
C10_Witness ==
    /\ npolls > 0
    /\ ~lastPoll.raised
    /\ lastPoll.status = "Completed"
    /\ Len(Split(lastPoll.job_id)) = 3
    /\ lastPoll.result.videoUrl = S3OutputUri \o <<"/", "m", "/", "output.mp4">>

Terminal == {"VIDEO_GENERATED", "VIDEO_GENERATION_FAILED", "ERROR"}

PollRepeatInv ==
    (npolls > 0 /\ ~lastPoll.raised) =>
        /\ (lastPoll.status = "Completed" /\ lastPoll.before.videoUrl # NoUrl) =>
              /\ lastPoll.result.status = "VIDEO_GENERATED"
              /\ lastPoll.result.videoUrl = lastPoll.before.videoUrl
        /\ (lastPoll.status = "Failed" /\ lastPoll.before.errorMessage # "None") =>
              /\ lastPoll.result.status = "VIDEO_GENERATION_FAILED"
              /\ lastPoll.result.errorMessage = lastPoll.before.errorMessage
        /\ lastPoll.before.status \in Terminal =>
              /\ lastPoll.result.status = lastPoll.before.status
              /\ lastPoll.result.videoUrl = lastPoll.before.videoUrl
              /\ lastPoll.result.errorMessage = lastPoll.before.errorMessage

PollRepeatStep == npolls' # npolls => (nsubmits' = nsubmits /\ remote' = remote)

RunFailed(run) ==
    \/ run.raised
    \/ \E i \in DOMAIN run.notices : run.notices[i].level = "error"

\* C13: a failed analyze, recommendation, collage or video action leaves
\* profile_data, recommendations_data, collage_data and video_url exactly as
\* they were.
C13_FailedActionKeepsStored ==
    [][(app_last'.op \in {"analyze", "recommendations", "collage", "video"} /\ RunFailed(app_last'))
          => UNCHANGED <<profile_data, recommendations_data, collage_data, video_url>>]_vars

\* C14: a user action makes at most one remote invocation; an Analyze click
\* invokes /analyzeImage at most once.
C14_OneInvocationPerAction == Len(app_calls) <= 1

\* C18: every remote call of the visit carries the session identifier made at
\* the start of the visit.
C18_CallsCarrySessionId ==
    \A i \in DOMAIN app_calls : app_calls[i].sessionId = session_id

\* C19: when the uploaded image is replaced by a different one, the stored
\* profile and what was made from it (analysis_complete, recommendations,
\* collage, video URL) are cleared in that run.
C19_NewImageClearsDerived ==
    [][(uploaded_file # "none" /\ uploaded_file' # "none" /\ uploaded_file' # uploaded_file)
          => /\ ~analysis_complete'
             /\ profile_data' = NoneVal
             /\ ~recommendations_generated'
             /\ recommendations_data' = NoneVal
             /\ collage_data' = NoneVal
             /\ video_url' = NoneVal]_vars

\* =========================================================================
\* Properties of the invokers
\* =========================================================================
\* C15: for one logical body the invoker returns the same value whichever of
\* the three response shapes wraps it.
C15_SameResultFromEveryShape ==
    (invoker_result.called /\ invoker_input.r.kind = "wrapped")
        => \A s \in Shapes :
              InvokerOutcome(invoker_input.invoker, Wrapped(invoker_input.r.body, s)).val
                  = invoker_result.val

\* the prefix of the message the invoker's except branch shows for a failed
\* invocation
ExceptPrefix(invoker) ==
    IF invoker \in {"recommendations", "recommendations_enhanced"}
    THEN RecommendationsExcept("e").notices[1].prefix
    ELSE CollageExcept("e").notices[1].prefix

\* C16: when the body carries an error key the invoker returns nothing, and
\* shows an error with the remote message that is not the message of a failed
\* invocation.
C16_ErrorKeyIsApplicationFailure ==
    (invoker_result.called /\ invoker_input.r.kind = "wrapped"
        /\ "error" \in DOMAIN invoker_input.r.body)
        => /\ invoker_result.val = NoneVal
           /\ \E i \in DOMAIN invoker_result.notices :
                 /\ invoker_result.notices[i].level = "error"
                 /\ invoker_result.notices[i].detail = invoker_input.r.body.error
                 /\ invoker_result.notices[i].prefix # ExceptPrefix(invoker_input.invoker)
                 /\ invoker_result.notices[i].prefix # "Lambda error: "

\* =========================================================================
\* Properties of the agent call
\* =========================================================================
\* the bytes of all chunks of a stream, in arrival order
RECURSIVE PayloadBytes(_)
PayloadBytes(events) ==
    IF events = <<>> THEN <<>>
    ELSE (IF "chunk" \in DOMAIN Head(events) /\ "bytes" \in DOMAIN Head(events).chunk
          THEN Head(events).chunk.bytes ELSE <<>>) \o PayloadBytes(Tail(events))

\* the call raised, the stream raised, or a chunk came that is no text
AgentFailure ==
    \/ agent_call_raises
    \/ \E i \in DOMAIN agent_events :
          \/ "raises" \in DOMAIN agent_events[i]
          \/ /\ "chunk" \in DOMAIN agent_events[i]
             /\ "bytes" \in DOMAIN agent_events[i].chunk
             /\ ~Utf8Decode(agent_events[i].chunk.bytes).ok

\* C17: invoke_bedrock_agent returns the chunk payloads concatenated in arrival
\* order when the stream completes, and None with an error shown when the
\* call or the stream fails, whatever was received before.
C17_AllTextOrNone ==
    agent_result.called =>
        IF AgentFailure
        THEN /\ agent_result.val = NoneVal
             /\ \E i \in DOMAIN agent_result.notices : agent_result.notices[i].level = "error"
        ELSE /\ agent_result.val = Text(Utf8Decode(PayloadBytes(agent_events)).text)
             /\ agent_result.notices = <<>>

\* two chunks were received before the stream raised
C17_Witness ==
    /\ agent_result.called
    /\ ~agent_call_raises
    /\ agent_events = <<Chunk(<<"a">>), Chunk(<<"b", "c3", "a9">>), StreamRaises>>
    /\ agent_result.val = NoneVal

\* =========================================================================
\* Properties of the narrative parser
\* =========================================================================
\* the words of a text: the maximal runs of characters that are not blanks
RECURSIVE WordsOf(_, _)
WordsOf(chars, word) ==
    IF chars = <<>> THEN (IF word = <<>> THEN <<>> ELSE <<word>>)
    ELSE IF Head(chars) = " "
    THEN (IF word = <<>> THEN <<>> ELSE <<word>>) \o WordsOf(Tail(chars), <<>>)
    ELSE WordsOf(Tail(chars), Append(word, Head(chars)))

\* how many words of the text, taken without case, are in the list
WholeWordCount(list, text) ==
    LET words == WordsOf(Lower(text), <<>>)
    IN Cardinality({i \in DOMAIN words : words[i] \in list})

\* C20: with indicator words counted without case as whole words, a narrative
\* with a male word and no female word gives gender male, one with a female
\* word and no male word gives female, and equal counts above zero give
\* unspecified.
C20_GenderByWholeWords ==
    (parsed_profile.called /\ IsStr(analysis_text)) =>
        LET male_count == WholeWordCount(male_indicators, analysis_text.str)
            female_count == WholeWordCount(female_indicators, analysis_text.str)
            gender == parsed_profile.profile.gender
        IN /\ (male_count >= 1 /\ female_count = 0) => gender = "male"
           /\ (female_count >= 1 /\ male_count = 0) => gender = "female"
           /\ (male_count = female_count /\ male_count > 0) => gender = "unspecified"

\* the archetype the order of the rules gives for a returned profile
ArchetypeByRules(p, pregnancy_indicator) ==
    IF p.age_group = "youth" /\ p.style_category = "athletic"
    THEN (IF p.gender = "male" THEN "Young Athletic Boy"
          ELSE IF p.gender = "female" THEN "Young Athletic Girl" ELSE "Young Athlete")
    ELSE IF p.gender = "female" /\ pregnancy_indicator THEN "Expecting Mother"
    ELSE IF p.style_category = "athletic"
    THEN (IF p.gender = "male" THEN "Athletic Professional (Male)"
          ELSE IF p.gender = "female" THEN "Athletic Professional (Female)"
          ELSE "Athletic Professional")
    ELSE IF p.style_category = "creative" THEN "Creative Individual"
    ELSE IF p.age_group = "youth" THEN "Young Individual"
    ELSE IF p.gender = "male" THEN "Modern Man"
    ELSE IF p.gender = "female" THEN "Modern Woman"
    ELSE "Modern Individual"

\* C21: the archetype is decided by first match in the order youth and
\* athletic, female with a pregnancy indicator, athletic, creative, youth,
\* else by gender; the example narrative gives male, youth, athletic, Young
\* Athletic Boy.
C21_ArchetypeByFirstMatch ==
    (parsed_profile.called /\ IsStr(analysis_text)) =>
        LET p == parsed_profile.profile
        IN /\ p.archetype =
                ArchetypeByRules(p, AnyIn(maternity_words, Lower(analysis_text.str)))
           /\ analysis_text = Text(ExampleNarrative) =>
                /\ p.gender = "male"
                /\ p.age_group = "youth"
                /\ p.style_category = "athletic"
                /\ p.archetype = "Young Athletic Boy"

\* the example narrative was parsed
C21_Witness ==
    /\ parsed_profile.called
    /\ analysis_text = Text(ExampleNarrative)
    /\ parsed_profile.profile.archetype = "Young Athletic Boy"

\* C22: style_category is the first category that matches in the order
\* athletic, casual, professional, creative, and general when none matches.
C22_StyleCategoryByPriority ==
    (parsed_profile.called /\ IsStr(analysis_text)) =>
        LET text_lower == Lower(analysis_text.str)
        IN parsed_profile.profile.style_category =
              (IF AnyIn(athletic_words, text_lower) THEN "athletic"
               ELSE IF AnyIn(casual_words, text_lower) THEN "casual"
               ELSE IF AnyIn(professional_words, text_lower) THEN "professional"
               ELSE IF AnyIn(creative_words, text_lower) THEN "creative"
               ELSE "general")

\* C23: age_group is youth exactly when more youth indicators than adult
\* indicators are found; equal counts, zero and zero included, give adult.
C23_YouthNeedsStrictMajority ==
    (parsed_profile.called /\ IsStr(analysis_text)) =>
        LET text_lower == Lower(analysis_text.str)
            youth_count == Cardinality({w \in youth_indicators : Contains(text_lower, w)})
            adult_count == Cardinality({w \in adult_indicators : Contains(text_lower, w)})
        IN /\ youth_count > adult_count => parsed_profile.profile.age_group = "youth"
           /\ youth_count <= adult_count => parsed_profile.profile.age_group = "adult"

\* one youth indicator and one adult indicator: adult
C23_Witness ==
    /\ parsed_profile.called
    /\ analysis_text = Text(<<"y", "o", "u", "n", "g", " ", "a", "d", "u", "l", "t">>)
    /\ parsed_profile.profile.age_group = "adult"

\* C24: for an input whose parsing fails, parse_analysis_text returns the
\* fixed profile with archetype Style Enthusiast and the input unchanged as
\* detailed_analysis; a narrative is parsed without an error.
C24_FallbackProfileOnError ==
    parsed_profile.called =>
        IF IsStr(analysis_text)
        THEN /\ ~parsed_profile.error_shown
             /\ parsed_profile.profile.detailed_analysis = analysis_text
        ELSE /\ parsed_profile.error_shown
             /\ parsed_profile.profile =
                   [archetype |-> "Style Enthusiast",
                    visual_style |-> <<"Contemporary">>,
                    energetic_essence |-> <<"Confident">>,
                    gender |-> "unspecified",
                    age_group |-> "adult",
                    detailed_analysis |-> analysis_text]

\* the parser was given something that is no str
C24_Witness ==
    /\ parsed_profile.called
    /\ ~IsStr(analysis_text)
    /\ parsed_profile.profile.archetype = "Style Enthusiast"

C26_OnlyValidImagesStored ==
    /\ \A o \in bucket : o.decodes
    /\ (upload_last.called /\ upload_last.val # NoneVal)
          => \E o \in bucket : o.key = upload_last.val

\* =========================================================================
\* Properties of the stored results
\* =========================================================================
\* a stored URL belongs to the stored job
UrlOfStoredJob ==
    (personalized_video_url # NoUrl /\ personalized_video_job # NoJob)
        => /\ personalized_video_job.status = "VIDEO_GENERATED"
           /\ personalized_video_job.videoUrl = personalized_video_url

\* a generation in progress has a job that is not finished
InProgressHasOpenJob ==
    personalized_video_in_progress
        => /\ personalized_video_job # NoJob
           /\ personalized_video_job.status \notin Terminal

\* C29: in the personalized-video tab a stored URL is the videoUrl of the
\* stored job, whose status is VIDEO_GENERATED, and a generation marked in
\* progress has a stored job whose status is not terminal.
C29_UrlBelongsToJob == UrlOfStoredJob /\ InProgressHasOpenJob

\* C30: stored recommendations were made for the profile that is stored now,
\* and recommendations_generated is true exactly when recommendations_data
\* is not empty.
C30_RecommendationsOfCurrentProfile ==
    /\ recommendations_data # NoneVal
          => \A i \in DOMAIN recommendations_data.list :
                recommendations_data.list[i].made_for = profile_data
    /\ recommendations_generated <=> Truthy(recommendations_data)


\* C27: whatever the interleaving of end_session with a send_text_message or
\* send_audio_chunk of another flow, no contentStart, textInput or audioInput
\* is handed to the stream after sessionEnd, and once sessionEnd was handed
\* every audio contentStart has a later audio contentEnd.
C27_NothingAfterSessionEnd ==
    \A i \in DOMAIN handed :
        handed[i].ev = "sessionEnd"
           => /\ \A j \in DOMAIN handed :
                    j > i => handed[j].ev \notin {"contentStart", "textInput", "audioInput"}
              /\ \A j \in DOMAIN handed :
                    handed[j] = [ev |-> "contentStart", role |-> "AUDIO"]
                       => \E k \in DOMAIN handed :
                             k > j /\ handed[k] = [ev |-> "contentEnd", role |-> "AUDIO"]

============================================================================
